---- MODULE Spec2Model ----
(***************************************************************************)
(* Antigravity2Api: credential lifecycle (AuthManager / TokenRefresher),   *)
(* account pool and group cursors, and the upstream call orchestrator      *)
(* (UpstreamClient.callV1Internal with QuotaRefresher.pickAccountIndex).   *)
(*                                                                         *)
(* Three specifications share the module:                                  *)
(*   SpecAuth : refreshToken / ensureProjectId / getCredentials / timers   *)
(*   SpecPool : addAccount / deleteAccountByFile / rotateAccount / pick    *)
(*   SpecCall : callV1Internal, one logical request after another          *)
(* Every await of the source is a step boundary of the model.              *)
(***************************************************************************)
EXTENDS Integers, Sequences, FiniteSets, TLC

(* ------------------------------ bounds -------------------------------- *)
NumCallers == 2
NumFiles == 2
MaxPool == 3
NumOps == 2
MaxPid == 2
MaxRequests == 2
MaxTicks == 1
NumWaiters == 3
minGapMs == 2
MaxGateNow == 4
MaxChunkParts == 2
MaxParts == 3
MaxLines == 2
MaxHttp == 2
MaxQuotaTicks == 3

(* SpecAuth follows the accounts one at a time: AuthManager keeps refresh   *)
(* and project-id state in the account object only (AuthManager.js:242-248) *)
Accts == {1}
Callers == 1..NumCallers
Pids == 1..MaxPid
Files == 1..NumFiles
Ops == 1..NumOps
Waiters == 1..NumWaiters
Groups == {"claude", "gemini"}
(* identifiers of promises and timer handles; enough for every closure the *)
(* accounts can have running at once, so that no call ever waits for an id *)
FlightIds == 1..(2 * Cardinality(Accts) + 1)
TimerIds == 1..(2 * Cardinality(Accts))

(* a settled but not yet cleared projectPromise (AuthManager.js:328-332) *)
SettledOk == 0 - 1
SettledFail == 0 - 2

VARIABLES
  \* ---- SpecAuth: per account (AuthManager.js:242-248)
  expired,         \* creds.expiry_date < now
  projectId,       \* creds.projectId, 0 = missing
  refreshPromise,  \* account.refreshPromise, 0 = null, else flight id
  projectPromise,  \* account.projectPromise, 0 = null, id, SettledOk/SettledFail
  refreshTimer,    \* account.refreshTimer, 0 = null, else timer handle
  refreshFlights,  \* running bodies of the async closure of refreshToken
  projFlights,     \* running bodies of the async closure of ensureProjectId
  pendingTimers,   \* timers armed with setTimeout and not yet fired/cleared
  timerWaits,      \* refresh(account).catch(...) reactions not yet decided
  catchQueue,      \* .catch handlers queued to run
  cpc, cacct, cwait, cout, \* getCredentials callers
  \* ---- SpecPool (AuthManager.js:87-89)
  accounts,        \* this.accounts: sequence of [file, email]
  cursor,          \* this.currentAccountIndexByGroup (0-based)
  disk,            \* credential files present in authDir
  ops,             \* addAccount / deleteAccountByFile / getAccountQuota calls in progress
  \* ---- SpecCall (QuotaRefresher.js:20-30, 682-1056), one model id
  quota,           \* modelQuotaByAccount[model]: account key -> snapshot
  lastError,       \* lastErrorByModel[model]
  nextIdx,         \* nextAccountIndexByModel[model]
  now,             \* Date.now(), ms
  call,            \* the locals of the running callV1Internal
  log,             \* what the running request did so far, in order
  nreq,            \* requests started
  nticks,          \* idle periods elapsed
  \* ---- SpecGate: one RateLimiter and its callers (part_000:2-22)
  gateQueue,       \* this.queue: closures chained and not yet run, in order
  gateBody,        \* the closure suspended at its setTimeout, 0 = none
  gateWake,        \* when the timer of the suspended closure is due
  lastStart,       \* this.lastStart
  gateNow,         \* Date.now() of the gate's process
  gpc,             \* callers of wait(): position
  gop,             \* outcome of the operation a caller ran once admitted
  gateCalls,       \* callers in the order they called wait()
  gateAdmitted,    \* [w, t]: wait() of w resolved at time t, in order
  \* ---- SpecStream: one streamed response (ClaudeTransformer.js:33-50, 994-1070)
  state,           \* the StreamingState object, with the events it emitted
  sparts,          \* the upstream parts processed so far, in order
  nlines,          \* data lines processed so far
  \* ---- SpecHttp: the request handler of the server (part_005:189-371)
  api_keys,        \* config.api_keys
  req,             \* the request being handled and what was done for it
  nhttp,           \* requests received
  \* ---- SpecRefresh: the QuotaRefresher object (QuotaRefresher.js:30-33)
  qRefreshPromise, \* this._refreshPromise: 0 = null, else the pass it stands for
  qRefreshTimer,   \* this._refreshTimer is set
  initialRefresh,  \* position of the closure behind this._initialRefreshPromise
  passes,          \* the refresh passes started so far, in order
  qcalls,          \* the calls of refreshAllAccountQuotas so far, in order
  nqticks,         \* interval ticks so far
  inPool,       \* membership of each account object in authManager.accounts
  toolSchema,   \* the schema value cleanJsonSchema was last applied to / returned
  cleanedOnce,  \* what the first application returned
  ncleans,      \* how many times cleanJsonSchema has been applied
  byModel,      \* per model key: nextAccountIndexByModel and modelQuotaByAccount entries
  modelKey,     \* the model key of the pickAccountIndex call at hand
  excluded,     \* options.excludeAccountIndices of the calls
  picked,       \* what the calls so far returned
  modelQuotaByAccount, \* this.modelQuotaByAccount: per model and account key, the snapshot
  passResults,  \* the per-account results held by the refresh pass in flight
  closed        \* controller.close() was called: the client stream has ended

authVars == <<expired, projectId, refreshPromise, projectPromise, refreshTimer,
              refreshFlights, projFlights, pendingTimers, timerWaits,
              catchQueue, cpc, cacct, cwait, cout>>

poolVars == <<accounts, cursor, disk, ops>>

callVars == <<quota, lastError, nextIdx, now, call, log, nreq, nticks>>

gateVars == <<gateQueue, gateBody, gateWake, lastStart, gateNow, gpc, gop, gateCalls, gateAdmitted>>

streamVars == <<state, sparts, nlines>>

httpVars == <<api_keys, req, nhttp>>

refreshVars == <<qRefreshPromise, qRefreshTimer, initialRefresh, passes, qcalls, nqticks>>

memberVars == <<inPool>>

schemaVars == <<toolSchema, cleanedOnce, ncleans>>

pickVars == <<byModel, modelKey, excluded, picked>>

quotaMapVars == <<modelQuotaByAccount, passResults>>

streamEndVars == <<closed>>

vars == <<authVars, poolVars, callVars, gateVars, streamVars, httpVars, refreshVars, memberVars, schemaVars, pickVars, quotaMapVars, streamEndVars>>

nonAuthVars == <<poolVars, callVars, gateVars, streamVars, httpVars, refreshVars, memberVars, schemaVars, pickVars, quotaMapVars, streamEndVars>>
nonPoolVars == <<authVars, callVars, gateVars, streamVars, httpVars, refreshVars, memberVars, schemaVars, pickVars, quotaMapVars, streamEndVars>>
nonCallVars == <<authVars, accounts, disk, ops, gateVars, streamVars, httpVars, refreshVars, memberVars, schemaVars, pickVars, quotaMapVars, streamEndVars>>
nonStreamVars == <<authVars, poolVars, callVars, gateVars, httpVars, refreshVars, memberVars, schemaVars, pickVars, quotaMapVars, streamEndVars>>
nonGateVars == <<authVars, poolVars, callVars, streamVars, httpVars, refreshVars, memberVars, schemaVars, pickVars, quotaMapVars, streamEndVars>>
nonRefreshVars == <<authVars, poolVars, lastError, nextIdx, now, call, log,
                    nreq, nticks, gateVars, streamVars, httpVars, memberVars, schemaVars, pickVars, quotaMapVars, streamEndVars>>
nonHttpVars == <<authVars, poolVars, callVars, gateVars, streamVars, refreshVars, memberVars, schemaVars, pickVars, quotaMapVars, streamEndVars>>
nonMemberVars == <<authVars, poolVars, callVars, gateVars, streamVars, httpVars, refreshVars, schemaVars, pickVars, quotaMapVars, streamEndVars>>

Min(S) == CHOOSE x \in S : \A y \in S : x <= y
Max(S) == CHOOSE x \in S : \A y \in S : x >= y

(* the variables of the other specifications, at rest *)
IdleOp == [pc |-> "idle", file |-> 0, idx |-> 0, prevClaude |-> 0,
           prevGemini |-> 0, had |-> FALSE, existing |-> 0, todo |-> <<>>]

PoolIdle ==
  /\ accounts = <<>>
  /\ cursor = [g \in Groups |-> 0]
  /\ disk = {}
  /\ ops = [p \in Ops |-> IdleOp]

AuthIdle ==
  /\ expired = [a \in Accts |-> FALSE]
  /\ projectId = [a \in Accts |-> 0]
  /\ refreshPromise = [a \in Accts |-> 0]
  /\ projectPromise = [a \in Accts |-> 0]
  /\ refreshTimer = [a \in Accts |-> 0]
  /\ pendingTimers = {}
  /\ refreshFlights = {}
  /\ projFlights = {}
  /\ timerWaits = {}
  /\ catchQueue = {}
  /\ cpc = [c \in Callers |-> "idle"]
  /\ cacct = [c \in Callers |-> 0]
  /\ cwait = [c \in Callers |-> 0]
  /\ cout = [c \in Callers |-> "none"]

GateIdle ==
  /\ gateQueue = <<>>
  /\ gateBody = 0
  /\ gateWake = 0
  /\ lastStart = 0
  /\ gateNow = minGapMs
  /\ gpc = [w \in Waiters |-> "idle"]
  /\ gop = [w \in Waiters |-> "none"]
  /\ gateCalls = <<>>
  /\ gateAdmitted = <<>>

(* new StreamingState(encoder, controller) (ClaudeTransformer.js:40-50); *)
(* pending is signatures.pending, out is what controller.enqueue got;   *)
(* a signature is named by the position of the part that carried it     *)
NewStreamingState ==
  [blockType |-> "none", blockIndex |-> 0, messageStartSent |-> FALSE,
   messageStopSent |-> FALSE, usedTool |-> FALSE, pending |-> 0,
   trailingSignature |-> 0, out |-> <<>>]

StreamIdle ==
  /\ state = NewStreamingState
  /\ sparts = <<>>
  /\ nlines = 0

(* no request in the handler; a path is the sequence of the segments of   *)
(* parsedUrl.pathname ("/v1/messages" is <<"v1", "messages">>), a header  *)
(* value the sequence of its blank-separated words, <<>> = header absent  *)
NoRequest ==
  [pc |-> "idle", method |-> "GET", path |-> <<>>, authorization |-> <<>>,
   xApiKey |-> <<>>, anthropicApiKey |-> <<>>, xGoogApiKey |-> <<>>,
   bodyOk |-> TRUE, status |-> 0, message |-> "none", handler |-> "none",
   upstream |-> FALSE]

HttpIdle ==
  /\ api_keys = {}
  /\ req = NoRequest
  /\ nhttp = 0

RefreshIdle ==
  /\ qRefreshPromise = 0
  /\ qRefreshTimer = FALSE
  /\ initialRefresh = [pc |-> "none", got |-> 0]
  /\ passes = <<>>
  /\ qcalls = <<>>
  /\ nqticks = 0

MemberIdle ==
  inPool = [a \in Accts |-> "in"]

SchemaIdle ==
  /\ toolSchema = 0
  /\ cleanedOnce = 0
  /\ ncleans = 0

PickIdle ==
  /\ byModel = 0
  /\ modelKey = 0
  /\ excluded = {}
  /\ picked = <<>>

QuotaMapIdle ==
  /\ modelQuotaByAccount = 0
  /\ passResults = 0

StreamEndIdle ==
  closed = FALSE

(* null, for a retry hint and for remainingPercent *)
Null == 0 - 1

(* no Response object *)
NoResp == [src |-> "none", status |-> 0, hint |-> Null, n |-> 0]

(* no entry in modelQuotaByAccount: remainingPercent null, no cooldown *)
NoSnapshot == [remainingPercent |-> Null, cooldownUntilMs |-> 0]

(* the locals of callV1Internal before a call (QuotaRefresher.js:688-713) *)
IdleCall ==
  [pc |-> "idle", model |-> FALSE, group |-> "claude", maxAttempts |-> 0,
   attemptNum |-> 0, tried |-> {}, waited |-> FALSE, lastResponse |-> NoResp,
   lastNetworkError |-> 0, loopNow |-> 0, accountIndex |-> 0, posts |-> 0,
   phase |-> "first", delay |-> 0, sleepKind |-> "none", after |-> "none",
   result |-> [kind |-> "none", resp |-> NoResp, err |-> "none",
               errPost |-> 0, via |-> "none"]]

CallIdle ==
  /\ quota = [f \in Files |-> NoSnapshot]
  /\ lastError = [status |-> 0, hint |-> Null]
  /\ nextIdx = 0
  /\ now = 0
  /\ call = IdleCall
  /\ log = <<>>
  /\ nreq = 0
  /\ nticks = 0

(* ====================================================================== *)
(*                       SpecAuth: AuthManager                            *)
(* ====================================================================== *)

FreeFlightIds ==
  FlightIds \ ({f.id : f \in refreshFlights} \cup {f.id : f \in projFlights}
                 \cup {cwait[c] : c \in Callers} \cup {w.flight : w \in timerWaits})

NewFlightId == Min(FreeFlightIds)

TimerIdsInUse(pend, handles) ==
  {t.id : t \in pend} \cup {handles[b] : b \in Accts}
    \cup {w.tid : w \in timerWaits} \cup {q.tid : q \in catchQueue}

(* TokenRefresher.scheduleRefresh: clear the account's handle, arm a timer *)
ClearTimer(a, pend) == {t \in pend : t.id # refreshTimer[a]}

ScheduleRefresh(a, pend) ==
  LET cleared == ClearTimer(a, pend)
      free == TimerIds \ TimerIdsInUse(cleared, [refreshTimer EXCEPT ![a] = 0])
  IN /\ free # {}
     /\ pendingTimers' = cleared \cup
          {[id |-> Min(free), acct |-> a, kind |-> "refresh"]}
     /\ refreshTimer' = [refreshTimer EXCEPT ![a] = Min(free)]

(* mutant of InFlightRefresh: the guard of line 506 is dropped *)
InFlightRefreshIgnored(a) == 0

(* AuthManager.refreshToken, line 506: the single-flight guard *)
InFlightRefresh(a) == refreshPromise[a]

(* AuthManager.refreshToken: the promise the caller gets; the closure is   *)
(* started (and runs up to its first await) only when no handle is set.    *)
RefreshTokenPromise(a) ==
  IF InFlightRefresh(a) = 0 THEN NewFlightId ELSE InFlightRefresh(a)

RefreshToken(a) ==
  IF InFlightRefresh(a) = 0
    THEN /\ FreeFlightIds # {}
         /\ refreshFlights' = refreshFlights \cup
              {[id |-> NewFlightId, acct |-> a, pc |-> "slot"]}
         /\ refreshPromise' = [refreshPromise EXCEPT ![a] = NewFlightId]
    ELSE UNCHANGED <<refreshFlights, refreshPromise>>

(* AuthManager.ensureProjectId, lines 294-300: the two early returns *)
InFlightProject(a) == projectPromise[a]

(* mutant of EnsureProjectId: it returns without looking for a project id *)
EnsureProjectIdSkipped(c, a) ==
  /\ cpc' = [cpc EXCEPT ![c] = "awaitProject"]
  /\ cout' = [cout EXCEPT ![c] = "ok"]
  /\ cwait' = [cwait EXCEPT ![c] = 0]
  /\ UNCHANGED <<projFlights, projectPromise>>

(* AuthManager.ensureProjectId called by caller c (getCredentials:354).     *)
EnsureProjectId(c, a) ==
  IF projectId[a] # 0
    THEN /\ cpc' = [cpc EXCEPT ![c] = "awaitProject"]
         /\ cout' = [cout EXCEPT ![c] = "ok"]
         /\ cwait' = [cwait EXCEPT ![c] = 0]
         /\ UNCHANGED <<projFlights, projectPromise>>
    ELSE IF InFlightProject(a) # 0
      THEN /\ cpc' = [cpc EXCEPT ![c] = "awaitProject"]
           /\ cout' = [cout EXCEPT ![c] =
                IF InFlightProject(a) = SettledOk THEN "ok"
                ELSE IF InFlightProject(a) = SettledFail THEN "fail"
                ELSE "pending"]
           /\ cwait' = [cwait EXCEPT ![c] =
                IF InFlightProject(a) > 0 THEN InFlightProject(a) ELSE 0]
           /\ UNCHANGED <<projFlights, projectPromise>>
      ELSE /\ FreeFlightIds # {}
           /\ projFlights' = projFlights \cup
                {[id |-> NewFlightId, acct |-> a, pc |-> "slot"]}
           /\ projectPromise' = [projectPromise EXCEPT ![a] = NewFlightId]
           /\ cpc' = [cpc EXCEPT ![c] = "awaitProjectOwner"]
           /\ cout' = [cout EXCEPT ![c] = "pending"]
           /\ cwait' = [cwait EXCEPT ![c] = NewFlightId]

(* getCredentials lines 348-354: after the optional await of line 345 *)
AfterInFlightWait(c, a) ==
  IF expired[a]
    THEN /\ RefreshToken(a)
         /\ cpc' = [cpc EXCEPT ![c] = "awaitRefresh2"]
         /\ cout' = [cout EXCEPT ![c] = "pending"]
         /\ cwait' = [cwait EXCEPT ![c] = RefreshTokenPromise(a)]
         /\ UNCHANGED <<projFlights, projectPromise>>
    ELSE /\ EnsureProjectId(c, a)
         /\ UNCHANGED <<refreshFlights, refreshPromise>>

(* getCredentials lines 335-346: the account is taken from this.accounts *)
GetCredentials(c, a) ==
  /\ cpc[c] = "idle"
  /\ inPool[a] # "out"
  /\ cacct' = [cacct EXCEPT ![c] = a]
  /\ IF refreshPromise[a] # 0
       THEN /\ cpc' = [cpc EXCEPT ![c] = "awaitRefresh1"]
            /\ cout' = [cout EXCEPT ![c] = "pending"]
            /\ cwait' = [cwait EXCEPT ![c] = refreshPromise[a]]
            /\ UNCHANGED <<refreshFlights, refreshPromise, projFlights, projectPromise>>
       ELSE AfterInFlightWait(c, a)
  /\ UNCHANGED <<expired, projectId, refreshTimer, pendingTimers, timerWaits, catchQueue>>
  /\ UNCHANGED nonAuthVars

(* getCredentials resumes after `await account.refreshPromise` (line 345) *)
ResumeRefresh1(c) ==
  /\ cpc[c] = "awaitRefresh1"
  /\ cout[c] # "pending"
  /\ IF cout[c] = "fail"
       THEN /\ cpc' = [cpc EXCEPT ![c] = "failed"]
            /\ UNCHANGED <<cout, cwait, refreshFlights, refreshPromise,
                           projFlights, projectPromise>>
       ELSE AfterInFlightWait(c, cacct[c])
  /\ UNCHANGED <<cacct, expired, projectId, refreshTimer, pendingTimers,
                 timerWaits, catchQueue>>
  /\ UNCHANGED nonAuthVars

(* getCredentials resumes after `await this.refreshToken(account)` (line 351) *)
ResumeRefresh2(c) ==
  /\ cpc[c] = "awaitRefresh2"
  /\ cout[c] # "pending"
  /\ IF cout[c] = "fail"
       THEN /\ cpc' = [cpc EXCEPT ![c] = "failed"]
            /\ UNCHANGED <<cout, cwait, projFlights, projectPromise>>
       ELSE EnsureProjectId(c, cacct[c])
  /\ UNCHANGED <<cacct, expired, projectId, refreshTimer, pendingTimers,
                 timerWaits, catchQueue, refreshFlights, refreshPromise>>
  /\ UNCHANGED nonAuthVars

(* ensureProjectId lines 328-332 (owner: finally clears the handle) and     *)
(* getCredentials lines 354-360                                             *)
ResumeProject(c) ==
  /\ cpc[c] \in {"awaitProject", "awaitProjectOwner"}
  /\ cout[c] # "pending"
  /\ projectPromise' = IF cpc[c] = "awaitProjectOwner"
                         THEN [projectPromise EXCEPT ![cacct[c]] = 0]
                         ELSE projectPromise
  /\ cpc' = [cpc EXCEPT ![c] = IF cout[c] = "ok" THEN "done" ELSE "failed"]
  /\ UNCHANGED <<cacct, cout, cwait, expired, projectId, refreshTimer,
                 pendingTimers, timerWaits, catchQueue, refreshFlights,
                 refreshPromise, projFlights>>
  /\ UNCHANGED nonAuthVars

(* the request ends; the caller may issue another one *)
CallerReset(c) ==
  /\ cpc[c] \in {"done", "failed"}
  /\ cpc' = [cpc EXCEPT ![c] = "idle"]
  /\ cout' = [cout EXCEPT ![c] = "none"]
  /\ cacct' = [cacct EXCEPT ![c] = 0]
  /\ UNCHANGED <<cwait, expired, projectId, refreshTimer, pendingTimers,
                 timerWaits, catchQueue, refreshFlights, refreshPromise,
                 projFlights, projectPromise>>
  /\ UNCHANGED nonAuthVars

(* the promise of a refreshToken closure settles: `finally` (line 551-553)  *)
(* clears the handle, every awaiting caller and every .catch reaction of    *)
(* TokenRefresher.scheduleRefresh (line 55) gets the outcome                *)
SettleRefresh(f, o) ==
  /\ refreshFlights' = refreshFlights \ {f}
  /\ refreshPromise' = [refreshPromise EXCEPT ![f.acct] = 0]
  /\ cout' = [c \in Callers |-> IF cwait[c] = f.id THEN o ELSE cout[c]]
  /\ cwait' = [c \in Callers |-> IF cwait[c] = f.id THEN 0 ELSE cwait[c]]
  /\ timerWaits' = {w \in timerWaits : w.flight # f.id}
  /\ catchQueue' = IF o = "fail"
                     THEN catchQueue \cup
                            {[acct |-> w.acct, tid |-> w.tid] :
                               w \in {x \in timerWaits : x.flight = f.id}}
                     ELSE catchQueue

(* refreshToken line 513: waitForApiSlot returned *)
RF_Slot(f) ==
  /\ f \in refreshFlights /\ f.pc = "slot"
  /\ refreshFlights' = (refreshFlights \ {f}) \cup {[f EXCEPT !.pc = "exchange"]}
  /\ UNCHANGED <<expired, projectId, refreshPromise, projectPromise, refreshTimer,
                 projFlights, pendingTimers, timerWaits, catchQueue,
                 cpc, cacct, cwait, cout>>
  /\ UNCHANGED nonAuthVars

(* refreshToken lines 514-544: the token exchange answered *)
RF_Exchange(f, ok) ==
  /\ f \in refreshFlights /\ f.pc = "exchange"
  /\ IF ~ok
       THEN /\ SettleRefresh(f, "fail")
            /\ UNCHANGED <<expired>>
       ELSE IF projectId[f.acct] # 0
         THEN /\ expired' = [expired EXCEPT ![f.acct] = FALSE]
              /\ refreshFlights' = (refreshFlights \ {f}) \cup {[f EXCEPT !.pc = "write"]}
              /\ UNCHANGED <<refreshPromise, cout, cwait, timerWaits, catchQueue>>
         ELSE /\ refreshFlights' = (refreshFlights \ {f}) \cup {[f EXCEPT !.pc = "pidSlot"]}
              /\ UNCHANGED <<expired, refreshPromise, cout, cwait, timerWaits, catchQueue>>
  /\ UNCHANGED <<projectId, projectPromise, refreshTimer, projFlights,
                 pendingTimers, cpc, cacct>>
  /\ UNCHANGED nonAuthVars

(* fetchProjectId line 287 inside refreshToken line 525 *)
RF_PidSlot(f) ==
  /\ f \in refreshFlights /\ f.pc = "pidSlot"
  /\ refreshFlights' = (refreshFlights \ {f}) \cup {[f EXCEPT !.pc = "pidCall"]}
  /\ UNCHANGED <<expired, projectId, refreshPromise, projectPromise, refreshTimer,
                 projFlights, pendingTimers, timerWaits, catchQueue,
                 cpc, cacct, cwait, cout>>
  /\ UNCHANGED nonAuthVars

(* outcomes of loadCodeAssist (httpClient.fetchProjectId): a project id in  *)
(* the body, none but "paidTier" (an id is generated), none at all, error   *)
PidOutcomes == {"found", "paidTier", "ineligible", "error"}
PidValues(o) == IF o = "found" THEN {1} ELSE IF o = "paidTier" THEN Pids ELSE {0}

(* refreshToken lines 525-544: loadCodeAssist answered during a refresh *)
RF_Pid(f, o, v) ==
  /\ f \in refreshFlights /\ f.pc = "pidCall"
  /\ v \in PidValues(o)
  /\ IF v = 0
       THEN /\ SettleRefresh(f, "fail")
            /\ UNCHANGED <<expired, projectId>>
       ELSE /\ projectId' = [projectId EXCEPT ![f.acct] = v]
            /\ expired' = [expired EXCEPT ![f.acct] = FALSE]
            /\ refreshFlights' = (refreshFlights \ {f}) \cup {[f EXCEPT !.pc = "write"]}
            /\ UNCHANGED <<refreshPromise, cout, cwait, timerWaits, catchQueue>>
  /\ UNCHANGED <<projectPromise, refreshTimer, projFlights, pendingTimers, cpc, cacct>>
  /\ UNCHANGED nonAuthVars

(* refreshToken lines 545-553: the file is written, the timer re-armed *)
RF_Write(f) ==
  /\ f \in refreshFlights /\ f.pc = "write"
  /\ ScheduleRefresh(f.acct, pendingTimers)
  /\ SettleRefresh(f, "ok")
  /\ UNCHANGED <<expired, projectId, projectPromise, projFlights, cpc, cacct>>
  /\ UNCHANGED nonAuthVars

(* the promise of an ensureProjectId closure settles (lines 302-326); the   *)
(* handle is cleared later, by the owner's `finally` (ResumeProject)        *)
SettleProject(f, o) ==
  /\ projFlights' = projFlights \ {f}
  /\ projectPromise' = [a \in Accts |->
       IF projectPromise[a] = f.id
         THEN (IF o = "ok" THEN SettledOk ELSE SettledFail)
         ELSE projectPromise[a]]
  /\ cout' = [c \in Callers |-> IF cwait[c] = f.id THEN o ELSE cout[c]]
  /\ cwait' = [c \in Callers |-> IF cwait[c] = f.id THEN 0 ELSE cwait[c]]

(* fetchProjectId line 287 inside ensureProjectId line 306 *)
PF_Slot(f) ==
  /\ f \in projFlights /\ f.pc = "slot"
  /\ projFlights' = (projFlights \ {f}) \cup {[f EXCEPT !.pc = "call"]}
  /\ UNCHANGED <<expired, projectId, refreshPromise, projectPromise, refreshTimer,
                 refreshFlights, pendingTimers, timerWaits, catchQueue,
                 cpc, cacct, cwait, cout>>
  /\ UNCHANGED nonAuthVars

(* ensureProjectId lines 306-323: loadCodeAssist answered *)
PF_Call(f, o, v) ==
  /\ f \in projFlights /\ f.pc = "call"
  /\ v \in PidValues(o)
  /\ IF v = 0
       THEN /\ SettleProject(f, "fail")
            /\ UNCHANGED projectId
       ELSE /\ projectId' = [projectId EXCEPT ![f.acct] = v]
            /\ projFlights' = (projFlights \ {f}) \cup {[f EXCEPT !.pc = "write"]}
            /\ UNCHANGED <<projectPromise, cout, cwait>>
  /\ UNCHANGED <<expired, refreshPromise, refreshTimer, refreshFlights,
                 pendingTimers, timerWaits, catchQueue, cpc, cacct>>
  /\ UNCHANGED nonAuthVars

(* ensureProjectId lines 323-325: the file is written *)
PF_Write(f) ==
  /\ f \in projFlights /\ f.pc = "write"
  /\ SettleProject(f, "ok")
  /\ UNCHANGED <<expired, projectId, refreshPromise, refreshTimer, refreshFlights,
                 pendingTimers, timerWaits, catchQueue, cpc, cacct>>
  /\ UNCHANGED nonAuthVars

(* TokenRefresher.scheduleRefresh lines 52-62 / 58-60: a timer fires *)
TimerFire(t) ==
  /\ t \in pendingTimers
  /\ IF t.kind = "refresh"
       THEN /\ RefreshToken(t.acct)
            /\ timerWaits' = timerWaits \cup
                 {[acct |-> t.acct, flight |-> RefreshTokenPromise(t.acct), tid |-> t.id]}
            /\ pendingTimers' = pendingTimers \ {t}
            /\ UNCHANGED refreshTimer
       ELSE /\ ScheduleRefresh(t.acct, pendingTimers \ {t})
            /\ UNCHANGED <<refreshFlights, refreshPromise, timerWaits>>
  /\ UNCHANGED <<expired, projectId, projectPromise, projFlights, catchQueue,
                 cpc, cacct, cwait, cout>>
  /\ UNCHANGED nonAuthVars

(* mutant of CatchHandler: the failure is logged, no 60 s timer is armed *)
CatchHandlerNoRearm(q) ==
  /\ q \in catchQueue
  /\ catchQueue' = catchQueue \ {q}
  /\ UNCHANGED <<expired, projectId, refreshPromise, projectPromise, refreshFlights,
                 projFlights, timerWaits, cpc, cacct, cwait, cout,
                 pendingTimers, refreshTimer>>
  /\ UNCHANGED nonAuthVars

(* TokenRefresher.scheduleRefresh lines 55-61: the .catch handler arms the  *)
(* 60 s timer and stores its handle without clearing the previous one       *)
CatchHandler(q) ==
  /\ q \in catchQueue
  /\ LET free == (TimerIds \ TimerIdsInUse(pendingTimers, [refreshTimer EXCEPT ![q.acct] = 0]))
                   \cup {q.tid}
     IN /\ pendingTimers' = pendingTimers \cup
             {[id |-> Min(free), acct |-> q.acct, kind |-> "rearm"]}
        /\ refreshTimer' = [refreshTimer EXCEPT ![q.acct] = Min(free)]
  /\ catchQueue' = catchQueue \ {q}
  /\ UNCHANGED <<expired, projectId, refreshPromise, projectPromise, refreshFlights,
                 projFlights, timerWaits, cpc, cacct, cwait, cout>>
  /\ UNCHANGED nonAuthVars

(* time passes: the access token of an account expires *)
Expire(a) ==
  /\ ~expired[a]
  /\ expired' = [expired EXCEPT ![a] = TRUE]
  /\ UNCHANGED <<projectId, refreshPromise, projectPromise, refreshTimer,
                 refreshFlights, projFlights, pendingTimers, timerWaits,
                 catchQueue, cpc, cacct, cwait, cout>>
  /\ UNCHANGED nonAuthVars

(* AuthManager constructor and loadAccounts (lines 85-99, 220-268): every   *)
(* loaded account has its refresh timer armed, projectId is optional        *)
InitAuth ==
  /\ expired \in [Accts -> BOOLEAN]
  /\ projectId \in [Accts -> {0, 1}]
  /\ refreshPromise = [a \in Accts |-> 0]
  /\ projectPromise = [a \in Accts |-> 0]
  /\ refreshTimer = [a \in Accts |-> a]
  /\ pendingTimers = {[id |-> a, acct |-> a, kind |-> "refresh"] : a \in Accts}
  /\ refreshFlights = {}
  /\ projFlights = {}
  /\ timerWaits = {}
  /\ catchQueue = {}
  /\ cpc = [c \in Callers |-> "idle"]
  /\ cacct = [c \in Callers |-> 0]
  /\ cwait = [c \in Callers |-> 0]
  /\ cout = [c \in Callers |-> "none"]
  /\ PoolIdle
  /\ CallIdle
  /\ GateIdle
  /\ StreamIdle
  /\ HttpIdle
  /\ RefreshIdle
  /\ MemberIdle
  /\ SchemaIdle
  /\ PickIdle
  /\ QuotaMapIdle
  /\ StreamEndIdle

(* a settled promise runs its reactions as microtasks, before any timer,   *)
(* network answer or new request is handled: while a .catch reaction of    *)
(* scheduleRefresh (line 55) is queued, it is the next thing to run        *)
MacroTask == catchQueue = {}

NextAuth ==
  \/ \E q \in catchQueue : CatchHandler(q)
  \/ \E c \in Callers, a \in Accts : MacroTask /\ GetCredentials(c, a)
  \/ \E c \in Callers : MacroTask /\ ResumeRefresh1(c)
  \/ \E c \in Callers : MacroTask /\ ResumeRefresh2(c)
  \/ \E c \in Callers : MacroTask /\ ResumeProject(c)
  \/ \E c \in Callers : MacroTask /\ CallerReset(c)
  \/ \E f \in refreshFlights : MacroTask /\ RF_Slot(f)
  \/ \E f \in refreshFlights, ok \in BOOLEAN : MacroTask /\ RF_Exchange(f, ok)
  \/ \E f \in refreshFlights : MacroTask /\ RF_PidSlot(f)
  \/ \E f \in refreshFlights, o \in PidOutcomes, v \in 0..MaxPid :
        MacroTask /\ RF_Pid(f, o, v)
  \/ \E f \in refreshFlights : MacroTask /\ RF_Write(f)
  \/ \E f \in projFlights : MacroTask /\ PF_Slot(f)
  \/ \E f \in projFlights, o \in PidOutcomes, v \in 0..MaxPid :
        MacroTask /\ PF_Call(f, o, v)
  \/ \E f \in projFlights : MacroTask /\ PF_Write(f)
  \/ \E t \in pendingTimers : MacroTask /\ TimerFire(t)
  \/ \E a \in Accts : MacroTask /\ Expire(a)

SpecAuth == InitAuth /\ [][NextAuth]_vars

(* ---------------------------- claims C1, C2 --------------------------- *)

(* token exchanges (refreshToken closures) outstanding for account a *)
RefreshesInFlight(a) == {f \in refreshFlights : f.acct = a}

(* loadCodeAssist calls in flight on behalf of account a: from the closure  *)
(* of ensureProjectId (line 306) and from refreshToken (line 525)           *)
ProjectCallsInFlight(a) ==
  {f \in projFlights : f.acct = a /\ f.pc = "call"}
    \cup {f \in refreshFlights : f.acct = a /\ f.pc = "pidCall"}

(* C1: token refresh is single-flight per account. At most one token        *)
(* exchange of an account is outstanding; every getCredentials caller and   *)
(* every timer callback that called refreshToken while it was outstanding   *)
(* holds the promise of that one exchange (account.refreshPromise), so it   *)
(* started no exchange of its own and is settled with that exchange.        *)
C1_SingleFlightRefresh ==
  \A a \in Accts :
    /\ Cardinality(RefreshesInFlight(a)) <= 1
    /\ \A f \in RefreshesInFlight(a) : refreshPromise[a] = f.id
    /\ \A c \in Callers :
         (cacct[c] = a /\ cpc[c] \in {"awaitRefresh1", "awaitRefresh2"}
            /\ cout[c] = "pending")
           => (cwait[c] = refreshPromise[a] /\ RefreshesInFlight(a) # {})
    /\ \A w \in timerWaits :
         w.acct = a => (w.flight = refreshPromise[a] /\ RefreshesInFlight(a) # {})

(* C1 witness: a token exchange is on the wire while both a request (which  *)
(* found the token expired) and the timer callback wait for it, and a       *)
(* second request found it in flight                                        *)
C1_Witness ==
  \E f \in refreshFlights :
    /\ f.pc = "exchange"
    /\ \E w \in timerWaits : w.flight = f.id
    /\ \E c \in Callers : cpc[c] = "awaitRefresh2" /\ cwait[c] = f.id
    /\ \E c \in Callers : cpc[c] = "awaitRefresh1" /\ cwait[c] = f.id

(* C2: at most one project-id resolution (loadCodeAssist call) per account  *)
(* is in flight at any time.                                                *)
C2_SingleFlightProject ==
  \A a \in Accts : Cardinality(ProjectCallsInFlight(a)) <= 1

(* getCredentials returned to caller c with the credentials of account a *)
HandedTo(c, a) == cpc[c] = "done" /\ cacct[c] = a

(* C24: once the projectId of an account is set and was handed to a caller *)
(* (getCredentials returned it), no step of a refresh or of a project-id   *)
(* resolution replaces it with a different value.                          *)
C24_ProjectIdPreserved ==
  [][\A a \in Accts :
       (projectId[a] # 0 /\ \E c \in Callers : HandedTo(c, a))
         => projectId'[a] = projectId[a]]_vars

(* ====================================================================== *)
(*        SpecTimer: the refresh timers with deletion and re-adding       *)
(* ====================================================================== *)
(* SpecAuth plus the two operations of the admin interface that touch the  *)
(* timer of an account that is already in the pool. The account object     *)
(* outlives its place in this.accounts: closures of refreshToken and of    *)
(* the timer callbacks keep it.                                            *)

nonTimerVars == <<poolVars, callVars, gateVars, streamVars, httpVars, refreshVars, schemaVars, pickVars, quotaMapVars, streamEndVars>>
nonPickVars == <<authVars, poolVars, callVars, gateVars, streamVars, httpVars, refreshVars, memberVars, schemaVars, quotaMapVars, streamEndVars>>
nonSchemaVars == <<authVars, poolVars, callVars, gateVars, streamVars, httpVars, refreshVars, memberVars, pickVars, quotaMapVars, streamEndVars>>
nonStreamEndVars == <<authVars, poolVars, callVars, gateVars, streamVars, httpVars, refreshVars, memberVars, schemaVars, pickVars, quotaMapVars>>
nonQuotaMapVars == <<authVars, poolVars, callVars, gateVars, streamVars, httpVars, refreshVars, memberVars, schemaVars, pickVars, streamEndVars>>

(* deleteAccountByFile lines 185-201 with TokenRefresher.cancelRefresh      *)
(* (lines 65-71): the handle is cleared, then the file removal is awaited   *)
CancelRefresh(a) ==
  /\ inPool[a] = "in"
  /\ pendingTimers' = ClearTimer(a, pendingTimers)
  /\ refreshTimer' = [refreshTimer EXCEPT ![a] = 0]
  /\ inPool' = [inPool EXCEPT ![a] = "unlinking"]
  /\ UNCHANGED <<expired, projectId, refreshPromise, projectPromise,
                 refreshFlights, projFlights, timerWaits, catchQueue,
                 cpc, cacct, cwait, cout>>
  /\ UNCHANGED nonTimerVars

(* deleteAccountByFile lines 202-217: the account leaves this.accounts *)
DeleteAccountByFile(a) ==
  /\ inPool[a] = "unlinking"
  /\ inPool' = [inPool EXCEPT ![a] = "out"]
  /\ UNCHANGED authVars
  /\ UNCHANGED nonTimerVars

(* addAccount lines 465-498 for an e-mail that is already in the pool: the  *)
(* new credentials (fresh token, the project id just resolved) replace the  *)
(* old ones in the same account object and its timer is scheduled           *)
AddAccount(a, pid) ==
  /\ inPool[a] = "in"
  /\ expired' = [expired EXCEPT ![a] = FALSE]
  /\ projectId' = [projectId EXCEPT ![a] = pid]
  /\ ScheduleRefresh(a, pendingTimers)
  /\ UNCHANGED <<refreshPromise, projectPromise, refreshFlights, projFlights,
                 timerWaits, catchQueue, cpc, cacct, cwait, cout, inPool>>
  /\ UNCHANGED nonTimerVars

NextTimer ==
  \/ NextAuth
  \/ \E a \in Accts : MacroTask /\ CancelRefresh(a)
  \/ \E a \in Accts : MacroTask /\ DeleteAccountByFile(a)
  \/ \E a \in Accts, pid \in Pids : MacroTask /\ AddAccount(a, pid)

SpecTimer == InitAuth /\ [][NextTimer]_vars

(* timers armed for account a that have not fired and were not cleared *)
TimersPending(a) == {t \in pendingTimers : t.acct = a}

(* C21: once deleteAccountByFile has removed an account, no refresh timer   *)
(* is pending for it, also when a refresh of the account was in flight at   *)
(* the time of the deletion.                                                *)
C21_DeletedHasNoTimer ==
  \A a \in Accts : inPool[a] = "out" => TimersPending(a) = {}

(* C25: at most one refresh timer is pending per account, under any         *)
(* interleaving of scheduleRefresh calls (load, add, successful refresh),   *)
(* timer firings and the 60 s re-arm after a failed refresh.                *)
C25_OneTimerPerAccount ==
  \A a \in Accts : Cardinality(TimersPending(a)) <= 1

(* the event loop runs every queued reaction and every due timer; a token  *)
(* exchange and a loadCodeAssist call end (httpClient answers or throws)   *)
SpecAuthFair ==
  /\ SpecAuth
  /\ WF_vars(\E q \in catchQueue : CatchHandler(q))
  /\ WF_vars(\E t \in pendingTimers : MacroTask /\ TimerFire(t))

(* the timer callback of account a saw its refresh fail and its .catch     *)
(* reaction has not run yet                                                *)
FailureQueued(a) == \E q \in catchQueue : q.acct = a

(* C26: for every account in the pool there is always a pending timer or a *)
(* refresh in flight (or the failure reaction of the timer callback is the *)
(* next thing to run), and after a failed timer-driven refresh another     *)
(* refresh attempt is eventually made.                                     *)
C26_FailedRefreshRetried ==
  /\ [](\A a \in Accts :
         TimersPending(a) # {} \/ RefreshesInFlight(a) # {} \/ FailureQueued(a))
  /\ \A a \in Accts : FailureQueued(a) ~> (RefreshesInFlight(a) # {})

(* C26 witness: the 60 s timer armed after a failed timer-driven refresh   *)
(* is pending and no refresh is in flight                                  *)
C26_Witness ==
  \E t \in pendingTimers :
    t.kind = "rearm" /\ RefreshesInFlight(t.acct) = {} /\ ~FailureQueued(t.acct)

(* ====================================================================== *)
(*              SpecPool: the account list and the group cursors          *)
(* ====================================================================== *)
(* Indices are 0-based as in the source; accounts[i + 1] is this.accounts[i] *)

Len0 == Len(accounts)

(* Array.prototype.findIndex on basename(filePath) (line 187); -1 if absent *)
FindIndexByFile(f) ==
  IF \E i \in 1..Len0 : accounts[i].file = f
    THEN Min({i \in 1..Len0 : accounts[i].file = f}) - 1
    ELSE 0 - 1

(* addAccount lines 412-434: the first account with the same e-mail *)
FindIndexByEmail(e) ==
  IF \E i \in 1..Len0 : accounts[i].email = e
    THEN Min({i \in 1..Len0 : accounts[i].email = e}) - 1
    ELSE 0 - 1

(* Array.prototype.splice(idx, 1): nothing is removed when idx >= length *)
Splice(seq, idx) ==
  IF idx < Len(seq)
    THEN [i \in 1..(Len(seq) - 1) |-> IF i <= idx THEN seq[i] ELSE seq[i + 1]]
    ELSE seq

(* mutant of CursorAfterDelete: deleting the current account keeps the index *)
CursorAfterDeleteNoClamp(current, idx, len) ==
  IF len = 0 THEN 0
  ELSE IF idx < current THEN Max({0, current - 1})
  ELSE current

(* deleteAccountByFile lines 204-215: one group's cursor after the splice;  *)
(* len is the length of the list after the splice                           *)
CursorAfterDelete(current, idx, len) ==
  IF len = 0 THEN 0
  ELSE IF idx < current THEN Max({0, current - 1})
  ELSE IF idx = current THEN Min({current, len - 1})
  ELSE current

(* addAccount lines 484-488 *)
ClampIndex(idx, len) ==
  IF len = 0 THEN 0 ELSE Max({0, Min({idx, len - 1})})

(* deleteAccountByFile lines 185-201: up to `await fs.unlink` *)
DeleteStart(p, f) ==
  /\ ops[p].pc = "idle"
  /\ FindIndexByFile(f) # 0 - 1
  /\ ops' = [ops EXCEPT ![p] = [IdleOp EXCEPT !.pc = "unlink", !.file = f,
                                              !.idx = FindIndexByFile(f)]]
  /\ UNCHANGED <<accounts, cursor, disk>>
  /\ UNCHANGED nonPoolVars

(* deleteAccountByFile lines 201-217: the file is gone, splice, cursors *)
DeleteFinish(p) ==
  /\ ops[p].pc = "unlink"
  /\ disk' = disk \ {ops[p].file}
  /\ accounts' = Splice(accounts, ops[p].idx)
  /\ cursor' = [g \in Groups |->
       CursorAfterDelete(cursor[g], ops[p].idx, Len(Splice(accounts, ops[p].idx)))]
  /\ ops' = [ops EXCEPT ![p] = IdleOp]
  /\ UNCHANGED nonPoolVars

(* addAccount lines 379-392: the cursors are remembered, loadCodeAssist is  *)
(* awaited                                                                  *)
AddStart(p, e) ==
  /\ ops[p].pc = "idle"
  /\ ops' = [ops EXCEPT ![p] = [IdleOp EXCEPT !.pc = "fetch", !.file = e,
                                              !.prevClaude = cursor["claude"],
                                              !.prevGemini = cursor["gemini"],
                                              !.had = (Len0 > 0)]]
  /\ UNCHANGED <<accounts, cursor, disk>>
  /\ UNCHANGED nonPoolVars

(* addAccount lines 392-465: projectId obtained (or the call throws), the   *)
(* duplicate scan by e-mail, then `await fs.writeFile`                      *)
AddFetched(p, ok) ==
  /\ ops[p].pc = "fetch"
  /\ ops' = [ops EXCEPT ![p] =
       IF ok THEN [ops[p] EXCEPT !.pc = "write",
                                 !.existing = FindIndexByEmail(ops[p].file)]
             ELSE IdleOp]
  /\ UNCHANGED <<accounts, cursor, disk>>
  /\ UNCHANGED nonPoolVars

(* addAccount lines 465-498: the slot is reused or a new account is pushed, *)
(* then the cursors are restored (clamped); a slot index that no longer     *)
(* exists makes line 469 throw before the cursors are touched               *)
AddWritten(p) ==
  /\ ops[p].pc = "write"
  /\ disk' = disk \cup {ops[p].file}
  /\ ops' = [ops EXCEPT ![p] = IdleOp]
  /\ IF ops[p].existing # 0 - 1 /\ ops[p].existing >= Len0
       THEN UNCHANGED <<accounts, cursor>>
       ELSE /\ accounts' =
                 IF ops[p].existing # 0 - 1
                   THEN [accounts EXCEPT ![ops[p].existing + 1].email = ops[p].file]
                   ELSE Append(accounts, [file |-> ops[p].file, email |-> ops[p].file])
            /\ Len(accounts') <= MaxPool
            /\ cursor' =
                 IF ~ops[p].had
                   THEN [g \in Groups |-> 0]
                   ELSE [g \in Groups |->
                           ClampIndex(IF g = "claude" THEN ops[p].prevClaude
                                                      ELSE ops[p].prevGemini,
                                      Len(accounts'))]
  /\ UNCHANGED nonPoolVars

(* AuthManager.rotateAccount lines 171-183 *)
RotateAccount(g) ==
  /\ Len0 > 1
  /\ cursor' = [cursor EXCEPT ![g] = (cursor[g] + 1) % Len0]
  /\ UNCHANGED <<accounts, disk, ops>>
  /\ UNCHANGED nonPoolVars

(* callV1Internal lines 765-775: the index chosen by pickAccountIndex (an   *)
(* index of the current list) becomes the group's cursor                    *)
OrchestratorPick(g, i) ==
  /\ i < Len0
  /\ cursor' = [cursor EXCEPT ![g] = i]
  /\ UNCHANGED <<accounts, disk, ops>>
  /\ UNCHANGED nonPoolVars

(* the ascending sequences of distinct files: what loadAccounts builds *)
LoadedPools ==
  {s \in UNION {[1..n -> Files] : n \in 0..NumFiles} :
     \A i \in 1..Len(s) : \A j \in 1..Len(s) : i < j => s[i] < s[j]}

(* loadAccounts lines 220-268 *)
InitPool ==
  /\ \E s \in LoadedPools :
       /\ accounts = [i \in 1..Len(s) |-> [file |-> s[i], email |-> s[i]]]
       /\ disk = {s[i] : i \in 1..Len(s)}
  /\ cursor = [g \in Groups |-> 0]
  /\ ops = [p \in Ops |-> IdleOp]
  /\ AuthIdle
  /\ CallIdle
  /\ GateIdle
  /\ StreamIdle
  /\ HttpIdle
  /\ RefreshIdle
  /\ MemberIdle
  /\ SchemaIdle
  /\ PickIdle
  /\ QuotaMapIdle
  /\ StreamEndIdle

NextPool ==
  \/ \E p \in Ops, f \in Files : DeleteStart(p, f)
  \/ \E p \in Ops : DeleteFinish(p)
  \/ \E p \in Ops, e \in Files : AddStart(p, e)
  \/ \E p \in Ops, ok \in BOOLEAN : AddFetched(p, ok)
  \/ \E p \in Ops : AddWritten(p)
  \/ \E g \in Groups : RotateAccount(g)
  \/ \E g \in Groups, i \in 0..MaxPool : OrchestratorPick(g, i)

SpecPool == InitPool /\ [][NextPool]_vars

(* ------------------------------- claim C3 ------------------------------ *)

(* C3: after any sequence of addAccount, deleteAccountByFile, rotateAccount *)
(* and orchestrator picks, both group cursors lie in [0, max(1, |pool|)).   *)
C3_CursorInRange ==
  \A g \in Groups : 0 <= cursor[g] /\ cursor[g] < Max({1, Len0})

(* C3 witness: file 1 was deleted and added again (it now sits at the tail, *)
(* which loadAccounts never produces) and the cursors were moved: one is at *)
(* the tail, the other is not                                               *)
C3_Witness ==
  /\ Len0 = 3
  /\ accounts[1].file = 2
  /\ accounts[3].file = 1
  /\ cursor["claude"] = 2
  /\ cursor["gemini"] = 1
  /\ \A p \in Ops : ops[p].pc = "idle"

(* ------------------- loadAccounts / reloadAccounts --------------------- *)

(* the files of a directory listing, ascending (fs.readdir, line 231) *)
RECURSIVE Listing(_)
Listing(fs) ==
  IF fs = {} THEN <<>> ELSE <<Min(fs)>> \o Listing(fs \ {Min(fs)})

(* reloadAccounts lines 270-282 and loadAccounts lines 220-226: the list   *)
(* and the cursors are reset, then fs.access is awaited                    *)
LoadAccounts(p) ==
  /\ ops[p].pc = "idle"
  /\ accounts' = <<>>
  /\ cursor' = [g \in Groups |-> 0]
  /\ ops' = [ops EXCEPT ![p] = [IdleOp EXCEPT !.pc = "readdir"]]
  /\ UNCHANGED disk
  /\ UNCHANGED nonPoolVars

(* loadAccounts lines 231-232: fs.readdir answered with the files on disk *)
LoadListed(p) ==
  /\ ops[p].pc = "readdir"
  /\ ops' = [ops EXCEPT ![p] =
       IF disk = {} THEN IdleOp
       ELSE [ops[p] EXCEPT !.pc = "readFile", !.todo = Listing(disk)]]
  /\ UNCHANGED <<accounts, cursor, disk>>
  /\ UNCHANGED nonPoolVars

(* loadAccounts lines 235-253 (one turn of the loop): fs.readFile of the   *)
(* next candidate answered; a file that is gone by now is skipped, any    *)
(* other is pushed. After the last one the timers are scheduled (262-264). *)
LoadRead(p) ==
  /\ ops[p].pc = "readFile"
  /\ LET f == Head(ops[p].todo)
         rest == Tail(ops[p].todo)
     IN /\ accounts' = IF f \in disk
                          THEN Append(accounts, [file |-> f, email |-> f])
                          ELSE accounts
        /\ Len(accounts') <= MaxPool
        /\ ops' = [ops EXCEPT ![p] =
             IF rest = <<>> THEN IdleOp ELSE [ops[p] EXCEPT !.todo = rest]]
  /\ UNCHANGED <<cursor, disk>>
  /\ UNCHANGED nonPoolVars

NextLoad ==
  \/ \E p \in Ops : LoadAccounts(p)
  \/ \E p \in Ops : LoadListed(p)
  \/ \E p \in Ops : LoadRead(p)
  \/ \E p \in Ops, e \in Files : AddStart(p, e)
  \/ \E p \in Ops, ok \in BOOLEAN : AddFetched(p, ok)
  \/ \E p \in Ops : AddWritten(p)
  \/ \E p \in Ops, f \in Files : DeleteStart(p, f)
  \/ \E p \in Ops : DeleteFinish(p)

SpecLoad == InitPool /\ [][NextLoad]_vars

(* C23: under any interleaving of loadAccounts/reloadAccounts, addAccount  *)
(* and deleteAccountByFile (two concurrent reloads and two concurrent adds *)
(* for the same e-mail included) the pool never holds two entries with the *)
(* same credential file path.                                              *)
C23_NoDuplicateFiles ==
  \A i \in 1..Len0 : \A j \in 1..Len0 :
    accounts[i].file = accounts[j].file => i = j

(* ====================================================================== *)
(*        SpecCall: UpstreamClient.callV1Internal and pickAccountIndex     *)
(* ====================================================================== *)

FIXED_RETRY_DELAY_MS == 1200
cooldownWaitThresholdMs == 5000
ShortRetryLimitMs == 5000
RetryPadMs == 200
TickMs == 1000

(* what the upstream can answer: a 2xx, a non-429 error, a 429 with or      *)
(* without a parsable retry delay ("2s", "30s"), or no answer at all        *)
RetryHints == {Null, 2000, 30000}
QuotaLevels == {0, 100}
Outcomes ==
  {[kind |-> "neterr", status |-> 0, hint |-> Null],
   [kind |-> "resp", status |-> 200, hint |-> Null],
   [kind |-> "resp", status |-> 400, hint |-> Null]}
  \cup {[kind |-> "resp", status |-> 429, hint |-> h] : h \in RetryHints}

Ev(e, a, b) == [e |-> e, a |-> a, b |-> b]

(* getAccountKeyFromAccount (lines 646-648): basename of the file path *)
AccountKey(i) == accounts[i + 1].file

Snapshot(i) == quota[AccountKey(i)]

(* getMaxAttempts lines 589-592 *)
GetMaxAttempts == Max({1, Len0})

(* getCachedErrorResponse lines 313-327: a new Response built from the cache *)
GetCachedErrorResponse ==
  IF lastError.status = 0 THEN NoResp
  ELSE [src |-> "cache", status |-> lastError.status, hint |-> lastError.hint,
        n |-> 0]

(* getSynthetic429 lines 329-341 *)
GetSynthetic429 == [src |-> "synthetic", status |-> 429, hint |-> Null, n |-> 0]

(* mutant of FastFailResponse: the cache is never consulted *)
FastFailResponseNoCache == GetSynthetic429

(* pickAccountIndex lines 373-377 (and 404-408, 426-430): cached || synthetic *)
FastFailResponse ==
  IF GetCachedErrorResponse # NoResp THEN GetCachedErrorResponse
  ELSE GetSynthetic429

(* pickAccountIndex lines 357-371 *)
AllZeroKnown ==
  LET known == {i \in 0..(Len0 - 1) : Snapshot(i).remainingPercent # Null}
      nonZero == {i \in known : Snapshot(i).remainingPercent > 0}
  IN Len0 > 0 /\ Cardinality(known) = Len0 /\ Cardinality(nonZero) = 0

(* mutant of Candidates: accounts at 0 % are not skipped *)
CandidatesWithZero(excl) == {i \in 0..(Len0 - 1) : i \notin excl}

(* pickAccountIndex lines 381-401 *)
Candidates(excl) ==
  {i \in 0..(Len0 - 1) : i \notin excl /\ Snapshot(i).remainingPercent # 0}

CooldownActive(i, t) == Snapshot(i).cooldownUntilMs > t

(* mutant of PickAmong: the remaining quota is not looked at *)
PickAmongAnyQuota(active) ==
  LET startIndex == nextIdx % Len0
  IN IF \E i \in active : i >= startIndex
       THEN Min({i \in active : i >= startIndex})
       ELSE Min(active)

(* mutant of PickAmong: the first finalist is taken, the cursor is ignored *)
PickAmongFirst(active) ==
  LET knownActive == {i \in active : Snapshot(i).remainingPercent # Null
                                     /\ Snapshot(i).remainingPercent > 0}
      best == Max({Snapshot(i).remainingPercent : i \in knownActive})
      finalists == IF knownActive # {}
                     THEN {i \in knownActive : Snapshot(i).remainingPercent = best}
                     ELSE {i \in active : Snapshot(i).remainingPercent = Null}
  IN IF finalists # {} THEN Min(finalists) ELSE Min(active)

(* pickAccountIndex lines 434-456: the finalists and the round-robin start *)
PickAmong(active) ==
  LET knownActive == {i \in active : Snapshot(i).remainingPercent # Null
                                     /\ Snapshot(i).remainingPercent > 0}
      best == Max({Snapshot(i).remainingPercent : i \in knownActive})
      finalists == IF knownActive # {}
                     THEN {i \in knownActive : Snapshot(i).remainingPercent = best}
                     ELSE {i \in active : Snapshot(i).remainingPercent = Null}
      startIndex == nextIdx % Len0
  IN IF \E i \in finalists : i >= startIndex
       THEN Min({i \in finalists : i >= startIndex})
       ELSE IF finalists # {} THEN Min(finalists) ELSE Min(active)

(* pickAccountIndex lines 343-469 for a non-empty model id *)
PickAccountIndex(t, excl) ==
  LET none == [kind |-> "fast_fail", reason |-> "no_accounts", response |-> NoResp,
               accountIndex |-> 0, waitMs |-> 0]
      active == {i \in Candidates(excl) : ~CooldownActive(i, t)}
      minRemaining == Min({Snapshot(i).cooldownUntilMs - t : i \in Candidates(excl)})
  IN IF Len0 = 0 THEN none
     ELSE IF AllZeroKnown
       THEN [none EXCEPT !.reason = "all_zero_known", !.response = FastFailResponse]
     ELSE IF Candidates(excl) = {}
       THEN [none EXCEPT !.reason = "no_candidates", !.response = FastFailResponse]
     ELSE IF active = {}
       THEN IF minRemaining <= cooldownWaitThresholdMs
              THEN [none EXCEPT !.kind = "wait", !.reason = "cooldown_short",
                                !.waitMs = Max({0, minRemaining})]
              ELSE [none EXCEPT !.reason = "cooldown_long",
                                !.response = FastFailResponse]
     ELSE [none EXCEPT !.kind = "pick", !.reason = "picked",
                       !.accountIndex = PickAmong(active)]

(* `return r` / `throw e` out of callV1Internal; via names the statement:   *)
(* "response" lines 881/907/937, "retry" 852/973/987/1004/1008, "wait"      *)
(* 728-732, "fast_fail" 749-754, "creds" 782, "exhausted" 1031-1055         *)
Return(c, r, via) ==
  [c EXCEPT !.pc = "done",
            !.result = [kind |-> "return", resp |-> r, err |-> "none",
                        errPost |-> 0, via |-> via]]

Throw(c, e, n, via) ==
  [c EXCEPT !.pc = "done",
            !.result = [kind |-> "throw", resp |-> NoResp, err |-> e,
                        errPost |-> n, via |-> via]]

(* lines 728-732, 750-754: cached, else lastResponse, else lastNetworkError, *)
(* else a new Error                                                         *)
FallbackResult(c, e, via) ==
  IF GetCachedErrorResponse # NoResp THEN Return(c, GetCachedErrorResponse, via)
  ELSE IF c.lastResponse # NoResp THEN Return(c, c.lastResponse, via)
  ELSE IF c.lastNetworkError # 0 THEN Throw(c, "network", c.lastNetworkError, via)
  ELSE Throw(c, e, 0, via)

(* lines 1031-1055: after the loop *)
ExhaustedResult(c) ==
  IF c.lastResponse # NoResp THEN Return(c, c.lastResponse, "exhausted")
  ELSE IF c.lastNetworkError # 0
    THEN Throw(c, "network", c.lastNetworkError, "exhausted")
  ELSE IF c.model /\ GetCachedErrorResponse # NoResp
    THEN Return(c, GetCachedErrorResponse, "exhausted")
  ELSE Throw(c, "status500", 0, "exhausted")

(* mutant of PassThrough: every error status is handled like a 429 *)
PassThroughOnlyOk(status) == FALSE

(* line 889: a non-ok response that is not a 429 is returned at once *)
PassThrough(status) == status # 429

(* line 871: response.ok *)
IsOk(status) == status >= 200 /\ status <= 299

(* line 930: the cooldown written after a 429 *)
CooldownUntil(t, retryMs) ==
  t + (IF retryMs # Null THEN Max({0, retryMs}) ELSE FIXED_RETRY_DELAY_MS)

(* mutant of ReturnAsIs: a 429 without a hint is returned as well *)
ReturnAsIsOrNoHint(retryMs) == retryMs = Null \/ retryMs > ShortRetryLimitMs

(* line 935, one attempt only: a long cooldown is not waited for *)
ReturnAsIs(retryMs) == retryMs # Null /\ retryMs > ShortRetryLimitMs

(* mutant of SameAccountDelay: the 200 ms are not added *)
SameAccountDelayNoPad(retryMs) ==
  IF retryMs = Null THEN FIXED_RETRY_DELAY_MS ELSE Max({0, retryMs})

(* line 940, one attempt only: the delay before the retry on the same account *)
SameAccountDelay(retryMs) ==
  IF retryMs = Null THEN FIXED_RETRY_DELAY_MS ELSE Max({0, retryMs + RetryPadMs})

(* mutant of RotateDelay: a short hint sleeps the fixed delay as well *)
RotateDelayShortHintSleeps(retryMs) ==
  IF retryMs = Null \/ retryMs <= ShortRetryLimitMs THEN FIXED_RETRY_DELAY_MS ELSE 0

(* lines 1011-1028, several attempts: the sleep before the next attempt;    *)
(* 0 stands for no sleep at all                                             *)
RotateDelay(retryMs) ==
  IF retryMs = Null THEN FIXED_RETRY_DELAY_MS ELSE 0

(* `await this.sleep(ms)` and what runs after it *)
SleepThen(c, ms, kind, after) ==
  [c EXCEPT !.pc = "sleep", !.delay = ms, !.sleepKind = kind, !.after = after]

(* getQuotaGroupFromModel lines 594-599: the requests followed here are    *)
(* those of one quota group                                                 *)
QuotaGroup == "claude"

(* callV1Internal lines 682-713; m: the request carries a model id *)
StartCall(m) ==
  /\ call.pc = "idle"
  /\ nreq < MaxRequests
  /\ call' = [IdleCall EXCEPT !.pc = "loop", !.model = m, !.group = QuotaGroup,
                              !.maxAttempts = GetMaxAttempts]
  /\ log' = <<>>
  /\ nreq' = nreq + 1
  /\ UNCHANGED <<quota, lastError, nextIdx, now, nticks, cursor>>
  /\ UNCHANGED nonCallVars

(* lines 770-775: the attempt is counted and the index becomes the cursor *)
BeginAttempt(c, idx) ==
  [c EXCEPT !.accountIndex = idx, !.tried = c.tried \cup {idx},
            !.attemptNum = c.attemptNum + 1, !.loopNow = now,
            !.phase = "first", !.pc = "creds"]

(* lines 715-775: the top of the loop up to `await getCredentialsByIndex` *)
Pick ==
  /\ call.pc = "loop"
  /\ call.attemptNum < call.maxAttempts
  /\ LET d == PickAccountIndex(now, call.tried) IN
       IF call.model /\ d.kind = "wait" THEN
         /\ call' = IF call.waited THEN FallbackResult(call, "cooldown", "wait")
                    ELSE SleepThen([call EXCEPT !.waited = TRUE],
                                   Max({0, d.waitMs}), "wait", "loop")
         /\ UNCHANGED <<nextIdx, cursor, log>>
       ELSE IF call.model /\ d.kind = "fast_fail" THEN
         /\ call' = IF d.response # NoResp
                      THEN Return(call, d.response, "fast_fail")
                      ELSE FallbackResult(call, "no_accounts", "fast_fail")
         /\ UNCHANGED <<nextIdx, cursor, log>>
       ELSE IF call.model THEN
         /\ call' = BeginAttempt(call, d.accountIndex)
         /\ nextIdx' = d.accountIndex + 1
         /\ cursor' = [cursor EXCEPT ![call.group] = d.accountIndex]
         /\ log' = Append(log, Ev("attempt", d.accountIndex, 0))
       ELSE
         /\ call' = BeginAttempt(call, cursor[call.group])
         /\ log' = Append(log, Ev("attempt", cursor[call.group], 0))
         /\ UNCHANGED <<nextIdx, cursor>>
  /\ UNCHANGED <<quota, lastError, now, nreq, nticks>>
  /\ UNCHANGED nonCallVars

(* mutant of Exhaust: the code after the loop handles a held response only *)
ExhaustNeedsResponse ==
  /\ call.pc = "loop"
  /\ call.attemptNum >= call.maxAttempts
  /\ call.lastResponse # NoResp
  /\ call' = ExhaustedResult(call)
  /\ UNCHANGED <<quota, lastError, nextIdx, now, log, nreq, nticks, cursor>>
  /\ UNCHANGED nonCallVars

(* lines 715, 1031-1055: the loop ends, the budget is spent *)
Exhaust ==
  /\ call.pc = "loop"
  /\ call.attemptNum >= call.maxAttempts
  /\ call' = ExhaustedResult(call)
  /\ UNCHANGED <<quota, lastError, nextIdx, now, log, nreq, nticks, cursor>>
  /\ UNCHANGED nonCallVars

(* AuthManager.getCredentialsByIndex: the credentials of the account at the *)
(* index, or an error (no such account, refresh or project id failed)       *)
GetCredentialsByIndex(idx) ==
  IF idx < Len0 THEN {TRUE, FALSE} ELSE {FALSE}

(* lines 777-786 *)
AcquireCredentials(ok) ==
  /\ call.pc = "creds"
  /\ ok \in GetCredentialsByIndex(call.accountIndex)
  /\ call' = IF ok THEN [call EXCEPT !.pc = "post"] ELSE Throw(call, "creds", 0, "creds")
  /\ log' = Append(log, Ev("creds", call.accountIndex, IF ok THEN 1 ELSE 0))
  /\ UNCHANGED <<quota, lastError, nextIdx, now, nreq, nticks, cursor>>
  /\ UNCHANGED nonCallVars

(* the sleeps of lines 743-745, 830, 864, 950, 1019 *)
Sleep ==
  /\ call.pc = "sleep"
  /\ now' = now + call.delay
  /\ log' = Append(log, Ev(call.sleepKind, call.delay, 0))
  /\ call' = [call EXCEPT !.pc = call.after, !.delay = 0, !.sleepKind = "none",
                          !.after = "none",
                          !.tried = IF call.sleepKind = "wait" THEN {} ELSE call.tried]
  /\ UNCHANGED <<quota, lastError, nextIdx, nreq, nticks, cursor>>
  /\ UNCHANGED nonCallVars

(* lines 798-1029: an upstream POST settles. phase "first" is the POST of   *)
(* line 800, "netRetry" the one of line 834, "retry429" the one of line 955 *)
Post(out) ==
  /\ call.pc = "post"
  /\ LET n == call.posts + 1
         c0 == [call EXCEPT !.posts = n]
         r == [src |-> "upstream", status |-> out.status, hint |-> out.hint,
               n |-> n]
         isErr == out.kind = "resp" /\ ~IsOk(out.status)
         is429 == isErr /\ call.phase # "retry429" /\ ~PassThrough(out.status)
         c1 == [c0 EXCEPT !.lastResponse = r]
     IN
     /\ log' = Append(log, Ev("post", out.status, out.hint))
     /\ lastError' = IF call.model /\ isErr
                       THEN [status |-> out.status, hint |-> out.hint]
                       ELSE lastError
     /\ quota' = IF call.model /\ is429
                   THEN [quota EXCEPT ![AccountKey(call.accountIndex)].cooldownUntilMs =
                                         CooldownUntil(call.loopNow, out.hint)]
                   ELSE quota
     /\ call' =
          IF out.kind = "neterr" THEN
            IF call.phase # "first"
              THEN Throw([c0 EXCEPT !.lastNetworkError = n], "network", n, "retry")
            ELSE IF call.maxAttempts = 1
              THEN SleepThen([c0 EXCEPT !.lastNetworkError = n, !.phase = "netRetry"],
                             FIXED_RETRY_DELAY_MS, "sleep", "post")
            ELSE SleepThen([c0 EXCEPT !.lastNetworkError = n],
                           FIXED_RETRY_DELAY_MS, "sleep", "loop")
          ELSE IF call.phase = "retry429"
            THEN Return(IF IsOk(out.status) \/ out.status # 429 THEN c0 ELSE c1,
                        r, "retry")
          ELSE IF IsOk(out.status) \/ PassThrough(out.status)
            THEN Return(c0, r, "response")
          ELSE IF call.maxAttempts = 1 THEN
            IF ReturnAsIs(out.hint) THEN Return(c1, r, "response")
            ELSE SleepThen([c1 EXCEPT !.phase = "retry429"],
                           SameAccountDelay(out.hint), "sleep", "post")
          ELSE IF RotateDelay(out.hint) > 0
            THEN SleepThen(c1, RotateDelay(out.hint), "sleep", "loop")
          ELSE [c1 EXCEPT !.pc = "loop"]
  /\ UNCHANGED <<nextIdx, now, nreq, nticks, cursor>>
  /\ UNCHANGED nonCallVars

(* the caller has the result; the next request may start *)
Settle ==
  /\ call.pc = "done"
  /\ call' = IdleCall
  /\ log' = <<>>
  /\ UNCHANGED <<quota, lastError, nextIdx, now, nreq, nticks, cursor>>
  /\ UNCHANGED nonCallVars

(* updateQuotaCacheFromModels lines 145-169, for one account: the quota     *)
(* refresh stores what the upstream reports and keeps the cooldown          *)
UpdateQuota(f, v) ==
  /\ \E i \in 1..Len0 : accounts[i].file = f
  /\ quota[f].remainingPercent # v
  /\ quota' = [quota EXCEPT ![f].remainingPercent = v]
  /\ UNCHANGED <<lastError, nextIdx, now, call, log, nreq, nticks, cursor>>
  /\ UNCHANGED nonCallVars

(* time passes between two requests *)
Tick ==
  /\ call.pc = "idle"
  /\ nticks < MaxTicks
  /\ now' = now + TickMs
  /\ nticks' = nticks + 1
  /\ UNCHANGED <<quota, lastError, nextIdx, call, log, nreq, cursor>>
  /\ UNCHANGED nonCallVars

(* UpstreamClient constructor lines 517-523 after loadAccounts *)
InitCall ==
  /\ \E s \in LoadedPools :
       /\ accounts = [i \in 1..Len(s) |-> [file |-> s[i], email |-> s[i]]]
       /\ disk = {s[i] : i \in 1..Len(s)}
  /\ cursor = [g \in Groups |-> 0]
  /\ ops = [p \in Ops |-> IdleOp]
  /\ AuthIdle
  /\ CallIdle
  /\ GateIdle
  /\ StreamIdle
  /\ HttpIdle
  /\ RefreshIdle
  /\ MemberIdle
  /\ SchemaIdle
  /\ PickIdle
  /\ QuotaMapIdle
  /\ StreamEndIdle

NextCall ==
  \/ \E m \in BOOLEAN : StartCall(m)
  \/ Pick
  \/ Exhaust
  \/ \E ok \in BOOLEAN : AcquireCredentials(ok)
  \/ \E out \in Outcomes : Post(out)
  \/ Sleep
  \/ Settle
  \/ \E f \in Files, v \in QuotaLevels \cup {Null} : UpdateQuota(f, v)
  \/ Tick

SpecCall == InitCall /\ [][NextCall]_vars

(* --------------------------- claims C4 - C10 --------------------------- *)

(* the upstream POSTs among the first k events of the running request *)
PostsUpTo(k) == Cardinality({j \in 1..k : log[j].e = "post"})

(* the Response object the POST logged at position k produced *)
ResponseAt(k) ==
  [src |-> "upstream", status |-> log[k].a, hint |-> log[k].b, n |-> PostsUpTo(k)]

(* the POST logged at k answered 429 *)
Is429At(k) == log[k].e = "post" /\ log[k].a = 429

(* the POST logged at k is the same-account retry that followed a 429 *)
IsRetryOf429(k) == k >= 3 /\ log[k - 1].e = "sleep" /\ Is429At(k - 2)

(* the request ended at event k by returning the response of that POST *)
ReturnedAsIs(k) ==
  /\ k = Len(log)
  /\ call.pc = "done"
  /\ call.result.kind = "return"
  /\ call.result.resp = ResponseAt(k)

(* after the sleep of ms that follows event k, the same account is retried  *)
(* once and whatever the retry gives ends the request                       *)
SleepsAndRetriesOnce(k, ms) ==
  /\ k = Len(log) => call.pc = "sleep" /\ call.delay = ms /\ call.after = "post"
  /\ k < Len(log) => log[k + 1] = Ev("sleep", ms, 0)
  /\ k + 1 = Len(log) => call.pc = "post"
  /\ k + 1 < Len(log) =>
       /\ log[k + 2].e = "post"
       /\ k + 2 = Len(log)
       /\ call.pc = "done"
       /\ IF log[k + 2].a = 0
            THEN call.result.kind = "throw" /\ call.result.err = "network"
            ELSE ReturnedAsIs(k + 2)

(* C4: a response whose status is not 429 is returned as that very response, *)
(* with no further POST and no further account selection, for every pool.   *)
C4_NonRetryablePassThrough ==
  \A k \in 1..Len(log) :
    (log[k].e = "post" /\ log[k].a # 0 /\ log[k].a # 429) => ReturnedAsIs(k)

(* C4 witness: with two accounts, the second POST of a request answered 400 *)
(* and the request returned it                                              *)
C4_Witness ==
  /\ Len0 = 2
  /\ call.pc = "done"
  /\ call.posts = 2
  /\ call.result.kind = "return"
  /\ call.result.resp = [src |-> "upstream", status |-> 400, hint |-> Null, n |-> 2]

First429At(k) == Len0 = 1 /\ call.maxAttempts = 1 /\ Is429At(k) /\ ~IsRetryOf429(k)

(* C6 as stated: one account, a 429 with a hint <= 5 s is retried once      *)
(* after hint + 200 ms, so the request makes at most two POSTs.             *)
C6_AtMostTwoPosts ==
  \A k \in 1..Len(log) :
    (First429At(k) /\ log[k].b # Null /\ log[k].b <= ShortRetryLimitMs) =>
      /\ SleepsAndRetriesOnce(k, log[k].b + RetryPadMs)
      /\ call.posts <= 2

(* C6 amended: one account, after a 429 with a hint <= 5 s the orchestrator *)
(* sleeps hint + 200 ms and retries the same account exactly once; the      *)
(* answer to the retry (a second 429 included) is returned as-is. At most   *)
(* one POST follows that 429: two POSTs for the request, three when the 429 *)
(* answered the retry of a transport error.                                 *)
C6_ShortHintRetriesOnce ==
  \A k \in 1..Len(log) :
    (First429At(k) /\ log[k].b # Null /\ log[k].b <= ShortRetryLimitMs) =>
      /\ SleepsAndRetriesOnce(k, log[k].b + RetryPadMs)
      /\ call.posts <= PostsUpTo(k) + 1
      /\ PostsUpTo(k) <= 2
      /\ PostsUpTo(k) = 2 => \E j \in 1..(k - 1) : log[j] = Ev("post", 0, Null)

(* C6 witness: one account, 429 with "2s", 2200 ms slept, the retry was     *)
(* answered 429 again and that second response was returned                 *)
C6_Witness ==
  /\ Len0 = 1
  /\ Len(log) = 5
  /\ log[3] = Ev("post", 429, 2000)
  /\ log[4] = Ev("sleep", 2200, 0)
  /\ log[5].e = "post" /\ log[5].a = 429
  /\ call.pc = "done"
  /\ call.result.resp.n = 2

(* C7 as stated: one account, a 429 whose hint is > 5 s or absent is        *)
(* returned as-is, with no sleep and no second POST.                        *)
C7_NoHintReturnedAsIs ==
  \A k \in 1..Len(log) :
    (First429At(k) /\ (log[k].b = Null \/ log[k].b > ShortRetryLimitMs)) =>
      ReturnedAsIs(k)

(* C7 amended: one account, a 429 with a hint > 5 s is returned as-is with  *)
(* no sleep and no further POST; a 429 without a hint is retried once on    *)
(* the same account after FIXED_RETRY_DELAY_MS and the answer to the retry  *)
(* is returned as-is.                                                       *)
C7_LongHintReturnedNoHintRetried ==
  \A k \in 1..Len(log) :
    First429At(k) =>
      /\ log[k].b # Null /\ log[k].b > ShortRetryLimitMs => ReturnedAsIs(k)
      /\ log[k].b = Null => SleepsAndRetriesOnce(k, FIXED_RETRY_DELAY_MS)

(* C7 witness: one account, a 429 without a hint, 1200 ms slept, the retry  *)
(* answered 429 with "30s" and that answer was returned                     *)
C7_Witness ==
  /\ Len0 = 1
  /\ Len(log) = 5
  /\ log[3] = Ev("post", 429, Null)
  /\ log[4] = Ev("sleep", FIXED_RETRY_DELAY_MS, 0)
  /\ log[5] = Ev("post", 429, 30000)
  /\ call.pc = "done"
  /\ call.result.resp = [src |-> "upstream", status |-> 429, hint |-> 30000, n |-> 2]

(* the positions of the account attempts of the running request *)
AttemptsAt == {k \in 1..Len(log) : log[k].e = "attempt"}

(* C8: a request makes at most max(1, pool size) account attempts, and with *)
(* more than one account no index is attempted twice unless a cooldown wait *)
(* lies between the two attempts.                                           *)
C8_AttemptBudget ==
  /\ Cardinality(AttemptsAt) <= Max({1, Len0})
  /\ Len0 > 1 =>
       \A j \in AttemptsAt : \A k \in AttemptsAt :
         (j < k /\ log[j].a = log[k].a) =>
           \E w \in (j + 1)..(k - 1) : log[w].e = "wait"

(* C9: when the loop ends with the budget spent, the request returns the    *)
(* last 429 it saw, else the 429 cached for the model, else it fails.       *)
C9_ExhaustionResult ==
  (call.pc = "done" /\ call.result.via = "exhausted") =>
    IF call.lastResponse # NoResp
      THEN call.result.kind = "return" /\ call.result.resp = call.lastResponse
    ELSE IF call.model /\ lastError.status = 429
      THEN /\ call.result.kind = "return"
           /\ call.result.resp = [src |-> "cache", status |-> 429,
                                  hint |-> lastError.hint, n |-> 0]
    ELSE call.result.kind = "throw"

(* C10: when every account has a known remainingPercent of 0 for the model, *)
(* pickAccountIndex answers fast_fail and the request returns the cached    *)
(* last error if there is one, else the synthesized 429, and no credential  *)
(* is acquired and nothing is POSTed.                                       *)
C10_AllZeroFastFail ==
  [][(call.pc = "loop" /\ call.model /\ call.attemptNum < call.maxAttempts
        /\ AllZeroKnown /\ call' # call) =>
       /\ PickAccountIndex(now, call.tried).kind = "fast_fail"
       /\ call'.pc = "done"
       /\ call'.result.kind = "return"
       /\ call'.result.resp =
            IF lastError.status # 0
              THEN [src |-> "cache", status |-> lastError.status,
                    hint |-> lastError.hint, n |-> 0]
              ELSE [src |-> "synthetic", status |-> 429, hint |-> Null, n |-> 0]
       /\ call'.posts = call.posts
       /\ log' = log
       /\ call.attemptNum = 0 =>
            \A k \in 1..Len(log') : log'[k].e \notin {"attempt", "creds", "post"}]_vars

(* C10 witness: both accounts are known to be at 0 %, a 429 is cached, and  *)
(* the request has returned the cached response with nothing attempted      *)
C10_Witness ==
  /\ Len0 = 2
  /\ AllZeroKnown
  /\ lastError.status = 429
  /\ call.pc = "done"
  /\ call.result.via = "fast_fail"
  /\ call.result.resp.src = "cache"
  /\ call.posts = 0
  /\ log = <<>>

(* -------------------------- claims C11 - C12 --------------------------- *)

(* the instants pickAccountIndex is asked about: now and the instants at    *)
(* and just before the end of each cooldown                                 *)
PickTimes ==
  {now} \cup {quota[f].cooldownUntilMs : f \in Files}
        \cup {quota[f].cooldownUntilMs - 1 : f \in Files}

(* C11: for every time and exclusion set, pickAccountIndex never picks an   *)
(* account that is excluded, that is known to be at 0 %, or whose cooldown  *)
(* ends after that time.                                                    *)
C11_PickRespectsFilters ==
  \A t \in PickTimes : \A excl \in SUBSET (0..(Len0 - 1)) :
    LET d == PickAccountIndex(t, excl) IN
      d.kind = "pick" =>
        /\ d.accountIndex \in 0..(Len0 - 1)
        /\ d.accountIndex \notin excl
        /\ Snapshot(d.accountIndex).remainingPercent # 0
        /\ Snapshot(d.accountIndex).cooldownUntilMs <= t

(* C11 witness: two accounts, the round-robin start points at index 0, but  *)
(* index 0 is cooling down and index 1 is picked; with index 1 excluded as  *)
(* well nothing is picked                                                   *)
C11_Witness ==
  /\ Len0 = 2
  /\ nextIdx % 2 = 0
  /\ Snapshot(0).cooldownUntilMs > now
  /\ Snapshot(1).remainingPercent = 100
  /\ PickAccountIndex(now, {}).kind = "pick"
  /\ PickAccountIndex(now, {}).accountIndex = 1
  /\ PickAccountIndex(now, {1}).kind # "pick"

(* C12: a fast-fail that carries a response hands a 429 to the client: the  *)
(* cached 429 or the synthesized one, whatever the upstream answered before *)
C12_FastFailIs429 ==
  (call.pc = "done" /\ call.result.via = "fast_fail" /\ Len0 > 0) =>
    /\ call.result.kind = "return"
    /\ call.result.resp.src \in {"cache", "synthetic"}
    /\ call.result.resp.status = 429

(* ------------------------------ claim C13 ------------------------------ *)

(* C13: a getCredentials call that returns hands out a non-empty projectId  *)
(* of the account it selected, under every interleaving with refreshes and  *)
(* project-id resolutions; without a project id the call fails.             *)
C13_ServedWithProjectId ==
  \A c \in Callers :
    /\ cpc[c] = "done" => projectId[cacct[c]] # 0
    /\ (cpc[c] \in {"awaitProject", "awaitProjectOwner"} /\ cout[c] = "ok") =>
         projectId[cacct[c]] # 0

(* C13 witness: one caller returned with a project id synthesized for a     *)
(* paid-tier account while the other caller's call failed                   *)
C13_Witness ==
  \E c \in Callers : \E d \in Callers :
    /\ cpc[c] = "done"
    /\ projectId[cacct[c]] = 2
    /\ cpc[d] = "failed"

(* ------------------------------------------------------------------------ *)
(* SpecGate: RateLimiter (part_000:2-22). wait() chains an async closure on  *)
(* this.queue; a closure starts when the one chained before it has settled, *)
(* reads the clock, sleeps for what is missing of the gap, stamps lastStart *)
(* and resolves the promise wait() returned. The callers then run their own *)
(* operation, which the gate never sees.                                    *)
(* Init has the clock past one gap: Date.now() is far from lastStart = 0.   *)
(* ------------------------------------------------------------------------ *)

(* waitMs = this.lastStart + this.minGapMs - now (part_000:12) *)
WaitMsNoGap(t) == lastStart - t

WaitMs(t) == lastStart + minGapMs - t

(* this.queue.then(...): the closure runs after all those chained before *)
EnqueueFirst(q, w) == <<w>> \o q

Enqueue(q, w) == Append(q, w)

(* this.lastStart = Date.now(), the closure returns, wait() resolves *)
Admit(w) ==
  /\ lastStart' = gateNow
  /\ gpc' = [gpc EXCEPT ![w] = "admitted"]
  /\ gateAdmitted' = Append(gateAdmitted, [w |-> w, t |-> gateNow])

(* wait(): lines 9-20, synchronous *)
GateWait(w) ==
  /\ gpc[w] = "idle"
  /\ gpc' = [gpc EXCEPT ![w] = "queued"]
  /\ gateQueue' = Enqueue(gateQueue, w)
  /\ gateCalls' = Append(gateCalls, w)
  /\ UNCHANGED <<gateBody, gateWake, lastStart, gateNow, gop, gateAdmitted>>
  /\ UNCHANGED nonGateVars

(* the next closure of the chain runs up to its await or to its end *)
GateStart ==
  /\ gateBody = 0
  /\ gateQueue # <<>>
  /\ LET w == Head(gateQueue)
         waitMs == WaitMs(gateNow)
     IN  /\ gateQueue' = Tail(gateQueue)
         /\ IF waitMs > 0
            THEN /\ gateBody' = w
                 /\ gateWake' = gateNow + waitMs
                 /\ gpc' = [gpc EXCEPT ![w] = "sleeping"]
                 /\ UNCHANGED <<lastStart, gateAdmitted>>
            ELSE /\ Admit(w)
                 /\ UNCHANGED <<gateBody, gateWake>>
  /\ UNCHANGED <<gateNow, gop, gateCalls>>
  /\ UNCHANGED nonGateVars

(* the timer of line 14 fires, at its due time or later *)
GateWake(w) ==
  /\ gateBody = w
  /\ gateNow >= gateWake
  /\ Admit(w)
  /\ gateBody' = 0
  /\ UNCHANGED <<gateQueue, gateWake, gateNow, gop, gateCalls>>
  /\ UNCHANGED nonGateVars

(* the operation of an admitted caller ends, well or not *)
GateOp(w, r) ==
  /\ gpc[w] = "admitted"
  /\ gpc' = [gpc EXCEPT ![w] = "done"]
  /\ gop' = [gop EXCEPT ![w] = r]
  /\ UNCHANGED <<gateQueue, gateBody, gateWake, lastStart, gateNow,
                 gateCalls, gateAdmitted>>
  /\ UNCHANGED nonGateVars

(* a millisecond passes; the clock stops at MaxGateNow unless a timer is *)
(* still to become due                                                   *)
GateTick ==
  /\ \/ gateNow < MaxGateNow
     \/ gateBody # 0 /\ gateNow < gateWake
  /\ gateNow' = gateNow + 1
  /\ UNCHANGED <<gateQueue, gateBody, gateWake, lastStart, gpc, gop,
                 gateCalls, gateAdmitted>>
  /\ UNCHANGED nonGateVars

InitGate ==
  /\ gateQueue = <<>>
  /\ gateBody = 0
  /\ gateWake = 0
  /\ lastStart = 0
  /\ gateNow = minGapMs
  /\ gpc = [w \in Waiters |-> "idle"]
  /\ gop = [w \in Waiters |-> "none"]
  /\ gateCalls = <<>>
  /\ gateAdmitted = <<>>
  /\ AuthIdle
  /\ PoolIdle
  /\ CallIdle
  /\ StreamIdle
  /\ HttpIdle
  /\ RefreshIdle
  /\ MemberIdle
  /\ SchemaIdle
  /\ PickIdle
  /\ QuotaMapIdle
  /\ StreamEndIdle

NextGate ==
  \/ \E w \in Waiters : GateWait(w)
  \/ GateStart
  \/ \E w \in Waiters : GateWake(w)
  \/ \E w \in Waiters : \E r \in {"ok", "failed"} : GateOp(w, r)
  \/ GateTick

SpecGate == InitGate /\ [][NextGate]_vars

(* the microtask of a settled promise runs, a due timer fires, time passes *)
SpecGateFair ==
  /\ SpecGate
  /\ WF_vars(GateStart)
  /\ WF_vars(\E w \in Waiters : GateWake(w))
  /\ WF_vars(GateTick)

AdmittedOrder == [i \in 1..Len(gateAdmitted) |-> gateAdmitted[i].w]

(* C14: any two consecutive completions of wait() on one gate are at least *)
(* minGapMs apart, and every caller of wait() is eventually admitted, also *)
(* when the operation of a caller admitted before it failed.               *)
C14_GapAndProgress ==
  /\ [](\A i \in 1..(Len(gateAdmitted) - 1) :
          gateAdmitted[i + 1].t - gateAdmitted[i].t >= minGapMs)
  /\ \A w \in Waiters :
       (gpc[w] \in {"queued", "sleeping"}) ~> (gpc[w] \in {"admitted", "done"})

C14_Witness ==
  /\ Len(gateAdmitted) = NumWaiters
  /\ gop[gateAdmitted[1].w] = "failed"
  /\ \A i \in 1..(Len(gateAdmitted) - 1) :
       gateAdmitted[i + 1].t - gateAdmitted[i].t = minGapMs

(* C15: the gate admits its callers in the order they called wait(): the *)
(* callers admitted so far are the first callers, in calling order.      *)
C15_Fifo ==
  /\ Len(gateAdmitted) <= Len(gateCalls)
  /\ AdmittedOrder = SubSeq(gateCalls, 1, Len(gateAdmitted))

C15_Witness ==
  /\ gateCalls = <<2, 3, 1>>
  /\ AdmittedOrder = <<2, 3>>
  /\ gpc[1] = "sleeping"


(* ------------------------------------------------------------------------ *)
(* SpecStream: the streaming translator (ClaudeTransformer.js:33-346,        *)
(* 1038-1078). processSSELine handles one data line of the upstream at a    *)
(* time, synchronously: message_start, every part of the chunk, and the     *)
(* finish when the chunk carries a finishReason. The upstream ends the      *)
(* response with the chunk that carries the finishReason, then [DONE].      *)
(* A part is a functionCall (with or without args), an empty plain text, a  *)
(* non-empty plain text or a thought text, each with or without a           *)
(* thoughtSignature.                                                        *)
(* ------------------------------------------------------------------------ *)
PartTypes ==
  [kind : {"emptyText", "text", "thinking"}, sig : BOOLEAN, args : {FALSE}]
    \cup [kind : {"functionCall"}, sig : BOOLEAN, args : BOOLEAN]

ChunkParts == UNION {[1..n -> PartTypes] : n \in 0..MaxChunkParts}

FinishReasons == {"none", "STOP", "MAX_TOKENS"}

(* one SSE event: index of the block, type of the content_block, type of  *)
(* the delta, the signature it carries, the part whose content it carries *)
SSE(type, index, block, delta, sig, src, stop) ==
  [type |-> type, index |-> index, block |-> block, delta |-> delta,
   sig |-> sig, src |-> src, stop |-> stop]

(* StreamingState.emit *)
Emit(st, e) == [st EXCEPT !.out = Append(@, e)]

(* StreamingState.emitMessageStart *)
EmitMessageStart(st) ==
  IF st.messageStartSent THEN st
  ELSE [Emit(st, SSE("message_start", Null, "none", "none", 0, 0, "none"))
          EXCEPT !.messageStartSent = TRUE]

(* StreamingState.emitDelta *)
EmitDelta(st, delta, sig, src) ==
  Emit(st, SSE("content_block_delta", st.blockIndex, "none", delta, sig, src,
               "none"))

(* StreamingState.endBlock *)
EndBlock(st) ==
  IF st.blockType = "none" THEN st
  ELSE LET s1 == IF st.blockType = "thinking" /\ st.pending # 0
                 THEN [EmitDelta(st, "signature_delta", st.pending, 0)
                         EXCEPT !.pending = 0]
                 ELSE st
           s2 == Emit(s1, SSE("content_block_stop", s1.blockIndex, "none",
                              "none", 0, 0, "none"))
       IN  [s2 EXCEPT !.blockIndex = @ + 1, !.blockType = "none"]

(* the content_block type of a block type *)
ContentBlock(type) == IF type = "function" THEN "tool_use" ELSE type

(* StreamingState.startBlock *)
StartBlockNoClose(st, type, sig, src) ==
  [Emit(st, SSE("content_block_start", st.blockIndex, ContentBlock(type),
                "none", sig, src, "none"))
     EXCEPT !.blockType = type]

StartBlock(st, type, sig, src) ==
  LET s1 == IF st.blockType # "none" THEN EndBlock(st) ELSE st
  IN  [Emit(s1, SSE("content_block_start", s1.blockIndex, ContentBlock(type),
                    "none", sig, src, "none"))
         EXCEPT !.blockType = type]

(* the empty thinking block that carries a signature: start, thinking_delta, *)
(* signature_delta, stop, blockIndex++ (lines 135-146, 192-203, 229-240,     *)
(* 254-265, 277-287)                                                         *)
SignatureBlock(st, sig) ==
  LET s1 == Emit(st, SSE("content_block_start", st.blockIndex, "thinking",
                         "none", 0, 0, "none"))
      s2 == EmitDelta(s1, "thinking_delta", 0, 0)
      s3 == EmitDelta(s2, "signature_delta", sig, 0)
      s4 == Emit(s3, SSE("content_block_stop", s3.blockIndex, "none", "none",
                         0, 0, "none"))
  IN  [s4 EXCEPT !.blockIndex = @ + 1]

(* if (this.state.trailingSignature) { endBlock(); ... } *)
FlushTrailing(st) ==
  IF st.trailingSignature # 0
  THEN [SignatureBlock(EndBlock(st), st.trailingSignature)
          EXCEPT !.trailingSignature = 0]
  ELSE st

(* SignatureManager.store *)
Store(st, sig) == IF sig # 0 THEN [st EXCEPT !.pending = sig] ELSE st

(* PartProcessor.processThinking *)
ProcessThinking(st, k) ==
  IF st.blockType = "thinking"
  THEN EmitDelta(st, "thinking_delta", 0, k)
  ELSE EmitDelta(StartBlock(st, "thinking", 0, 0), "thinking_delta", 0, k)

(* PartProcessor.processText, of a non-empty text *)
ProcessText(st, k) ==
  IF st.blockType = "text"
  THEN EmitDelta(st, "text_delta", 0, k)
  ELSE EmitDelta(StartBlock(st, "text", 0, 0), "text_delta", 0, k)

(* PartProcessor.processFunctionCall *)
ProcessFunctionCall(st, p, k) ==
  LET s1 == StartBlock(st, "function", IF p.sig THEN k ELSE 0, k)
      s2 == IF p.args THEN EmitDelta(s1, "input_json_delta", 0, k) ELSE s1
  IN  [s2 EXCEPT !.usedTool = TRUE]

(* a non-empty plain text with a signature: lines 268-287 *)
SignedText(st, k) ==
  LET s1 == StartBlock(EndBlock(st), "text", 0, 0)
      s2 == EndBlock(EmitDelta(s1, "text_delta", 0, k))
  IN  SignatureBlock(s2, k)

(* the empty plain text keeps its signature in trailingSignature *)
StashTrailing(st, p, k) ==
  IF p.sig THEN [st EXCEPT !.trailingSignature = k] ELSE st

(* PartProcessor.process(part), part k of the response *)
Process(st, p, k) ==
  IF p.kind = "functionCall" THEN ProcessFunctionCall(FlushTrailing(st), p, k)
  ELSE IF p.kind = "emptyText" THEN StashTrailing(st, p, k)
  ELSE IF p.kind = "thinking"
       THEN Store(ProcessThinking(FlushTrailing(st), k),
                  IF p.sig THEN k ELSE 0)
  ELSE IF p.sig THEN SignedText(FlushTrailing(st), k)
  ELSE ProcessText(FlushTrailing(st), k)

(* for (const part of parts) processor.process(part) *)
RECURSIVE ProcessParts(_, _, _)
ProcessParts(st, ps, k) ==
  IF ps = <<>> THEN st
  ELSE ProcessParts(Process(st, Head(ps), k + 1), Tail(ps), k + 1)

(* StreamingState.emitFinish *)
StopReason(st, finishReason) ==
  IF st.usedTool THEN "tool_use"
  ELSE IF finishReason = "MAX_TOKENS" THEN "max_tokens" ELSE "end_turn"

EmitMessageStop(st) ==
  IF st.messageStopSent THEN st
  ELSE [Emit(st, SSE("message_stop", Null, "none", "none", 0, 0, "none"))
          EXCEPT !.messageStopSent = TRUE]

EmitFinish(st, finishReason) ==
  LET s1 == FlushTrailing(EndBlock(st))
      s2 == Emit(s1, SSE("message_delta", Null, "none", "none", 0, 0,
                         StopReason(s1, finishReason)))
  IN  EmitMessageStop(s2)

Finished == \E i \in DOMAIN state.out : state.out[i].type = "message_delta"

(* processSSELine of a data line with a JSON chunk *)
ProcessSSELine(ps, finishReason) ==
  /\ ~Finished
  /\ ~state.messageStopSent
  /\ nlines < MaxLines
  /\ Len(sparts) + Len(ps) <= MaxParts
  /\ LET s1 == ProcessParts(EmitMessageStart(state), ps, Len(sparts))
     IN  state' = IF finishReason # "none" THEN EmitFinish(s1, finishReason)
                  ELSE s1
  /\ sparts' = sparts \o ps
  /\ nlines' = nlines + 1
  /\ UNCHANGED nonStreamVars

(* processSSELine of the line "data: [DONE]" *)
DoneLine ==
  /\ Finished
  /\ state' = EmitMessageStop(state)
  /\ nlines' = nlines + 1
  /\ nlines <= MaxLines
  /\ UNCHANGED sparts
  /\ UNCHANGED nonStreamVars

InitStream ==
  /\ state = NewStreamingState
  /\ sparts = <<>>
  /\ nlines = 0
  /\ AuthIdle
  /\ PoolIdle
  /\ CallIdle
  /\ GateIdle
  /\ HttpIdle
  /\ RefreshIdle
  /\ MemberIdle
  /\ SchemaIdle
  /\ PickIdle
  /\ QuotaMapIdle
  /\ StreamEndIdle

NextStream ==
  \/ \E ps \in ChunkParts : \E f \in FinishReasons : ProcessSSELine(ps, f)
  \/ DoneLine

SpecStream == InitStream /\ [][NextStream]_vars


(* what the client received, and where part k went *)
Out == state.out

SigEvents(k) == {i \in DOMAIN Out : Out[i].sig = k}

BlocksOf(k) == {Out[i].index : i \in {j \in DOMAIN Out : Out[j].src = k}}

(* event i carries the signature of part k on the block of part k: the     *)
(* tool_use block of a function call, the thinking block of a thought, the *)
(* empty thinking block right after the text block of a signed text, and   *)
(* for an empty text an empty thinking block of its own between the blocks *)
(* of the parts before it and the blocks of the parts after it             *)
PlacedAt(k, i) ==
  LET kind == sparts[k].kind
      b == Out[i].index
  IN  CASE kind = "functionCall" ->
             Out[i].type = "content_block_start" /\ Out[i].src = k
        [] kind = "thinking" ->
             Out[i].delta = "signature_delta" /\ b \in BlocksOf(k)
        [] kind = "text" ->
             /\ Out[i].delta = "signature_delta"
             /\ b - 1 \in BlocksOf(k)
             /\ \A j \in DOMAIN sparts : b \notin BlocksOf(j)
        [] OTHER ->
             /\ Out[i].delta = "signature_delta"
             /\ \A j \in DOMAIN sparts :
                  \A c \in BlocksOf(j) : IF j < k THEN c < b ELSE c > b

(* C16: once the response is finished, the thoughtSignature of every part *)
(* was emitted exactly once, on the block produced at that part's         *)
(* position.                                                              *)
C16_SignaturesPlaced ==
  Finished =>
    \A k \in DOMAIN sparts :
      sparts[k].sig =>
        \E i \in DOMAIN Out : SigEvents(k) = {i} /\ PlacedAt(k, i)


(* event i is the signature_delta of an empty thinking block of its own: *)
(* start, empty thinking_delta, signature_delta, stop                    *)
OwnEmptyBlock(i) ==
  /\ i - 2 \in DOMAIN Out /\ i + 1 \in DOMAIN Out
  /\ Out[i].delta = "signature_delta"
  /\ Out[i - 2].type = "content_block_start" /\ Out[i - 2].block = "thinking"
  /\ Out[i - 1].delta = "thinking_delta" /\ Out[i - 1].src = 0
  /\ Out[i + 1].type = "content_block_stop"
  /\ \A j \in DOMAIN sparts : Out[i].index \notin BlocksOf(j)

(* the parts after part k that are not empty plain texts *)
Following(k) == {j \in (k + 1)..Len(sparts) : sparts[j].kind # "emptyText"}

(* C17: the signature of an empty plain text part goes on no block of    *)
(* another part: it is emitted as an empty thinking block of its own,    *)
(* right before the tool_use block when a function call is what follows, *)
(* and right before the message_delta of the finish when nothing does.   *)
C17_TrailingSignature ==
  \A k \in DOMAIN sparts :
    (sparts[k].kind = "emptyText" /\ sparts[k].sig) =>
      /\ \A i \in SigEvents(k) : OwnEmptyBlock(i)
      /\ IF Following(k) # {}
         THEN sparts[Min(Following(k))].kind = "functionCall" =>
                \E i \in SigEvents(k) :
                  /\ i + 2 \in DOMAIN Out
                  /\ Out[i + 2].type = "content_block_start"
                  /\ Out[i + 2].block = "tool_use"
                  /\ Out[i + 2].src = Min(Following(k))
         ELSE Finished =>
                \E i \in SigEvents(k) :
                  /\ i + 2 \in DOMAIN Out
                  /\ Out[i + 2].type = "message_delta"


(* content_block_stop events, and blocks open, after the first i events *)
StopsUpTo(i) ==
  Cardinality({j \in 1..i : Out[j].type = "content_block_stop"})

OpenUpTo(i) ==
  Cardinality({j \in 1..i : Out[j].type = "content_block_start"})
    - StopsUpTo(i)

(* C18: in what the translator emitted, a content_block_start comes only  *)
(* when no block is open, a content_block_delta and a content_block_stop  *)
(* only when one is, and each of them carries the number of               *)
(* content_block_stop events emitted before it: the indices are 0, 1, 2,  *)
(* ... and advance exactly on each content_block_stop.                    *)
C18_BlocksWellNested ==
  \A i \in DOMAIN Out :
    /\ Out[i].type = "content_block_start" =>
         OpenUpTo(i - 1) = 0 /\ Out[i].index = StopsUpTo(i - 1)
    /\ Out[i].type \in {"content_block_delta", "content_block_stop"} =>
         OpenUpTo(i - 1) = 1 /\ Out[i].index = StopsUpTo(i - 1)

C18_Witness ==
  /\ Finished
  /\ Len(sparts) = 3
  /\ sparts[1].kind = "text" /\ ~sparts[1].sig
  /\ sparts[2].kind = "thinking" /\ sparts[2].sig
  /\ sparts[3].kind = "functionCall" /\ sparts[3].args
  /\ state.blockIndex = 3
  /\ \E i \in DOMAIN Out :
       /\ Out[i].delta = "signature_delta" /\ Out[i].index = 1
       /\ Out[i + 1].type = "content_block_stop" /\ Out[i + 1].index = 1
       /\ Out[i + 2].type = "content_block_start" /\ Out[i + 2].index = 2


(* ------------------------------------------------------------------------ *)
(* SpecHttp: http.createServer(async (req, res) => ...) (part_005:189-371). *)
(* One request at a time: the handler shares nothing but config between    *)
(* requests. Each await of the handler ends a step. handleUiRoute,          *)
(* handleOAuthCallbackRoute and handleAdminRoute are not part of the        *)
(* sources at hand: each answers the paths of its own area and returns      *)
(* nothing for any other path.                                              *)
(* ------------------------------------------------------------------------ *)
Methods == {"GET", "POST", "OPTIONS"}

Paths ==
  { <<>>, <<"admin", "api">>, <<"oauth-callback">>, <<"v1">>, <<"v2", "x">>,
    <<"v1", "models">>, <<"v1", "messages">>,
    <<"v1", "messages", "count_tokens">>, <<"v1", "x">>,
    <<"v1beta", "models">>, <<"v1beta", "models", "m">>,
    <<"v1beta", "models", "m:generateContent">>,
    <<"v1beta", "models", "m:countTokens">>, <<"v1beta", "x">> }

AuthorizationValues ==
  {<<>>} \cup {<<"Bearer", k>> : k \in {"k1", "k3"}}
         \cup {<<"bearer", "k1">>, <<"k1">>, <<"Basic", "k1">>,
               <<"Bearer", "k1", "x">>}

KeyHeaderValues == {<<>>, <<"k1">>, <<"k3">>}

(* extractApiKey(headers): the words of the key, <<>> = null *)
ExtractApiKey(r) ==
  IF r.authorization # <<>>
  THEN IF Len(r.authorization) = 2
            /\ r.authorization[1] \in {"Bearer", "bearer"}
       THEN <<r.authorization[2]>>
       ELSE r.authorization
  ELSE IF r.xApiKey # <<>> THEN r.xApiKey
  ELSE IF r.anthropicApiKey # <<>> THEN r.anthropicApiKey
  ELSE r.xGoogApiKey

(* config.api_keys.includes(apiKey) *)
Includes(keys, apiKey) == Len(apiKey) = 1 /\ apiKey[1] \in keys

(* pathname.startsWith("/v1/") || pathname === "/v1/models" || ... *)
StartsWith(path, seg) == Len(path) >= 2 /\ path[1] = seg

IsApiEndpointV1Only(path) == StartsWith(path, "v1")

IsApiEndpoint(path) ==
  \/ StartsWith(path, "v1")
  \/ path = <<"v1", "models">>
  \/ StartsWith(path, "v1beta")

(* the areas of the handlers that run before the key check *)
PublicArea(h, path) ==
  CASE h = "ui" -> path = <<>>
    [] h = "oauth" -> path = <<"oauth-callback">>
    [] h = "admin" -> Len(path) >= 1 /\ path[1] = "admin"

(* the route of a path and method, lines 263-356: [handler, body] *)
NoRoute == [handler |-> "none", body |-> FALSE]

Route(path, method) ==
  IF path = <<"v1", "models">> /\ method = "GET"
    THEN [handler |-> "claudeApi.handleListModels", body |-> FALSE]
  ELSE IF path = <<"v1beta", "models">> /\ method = "GET"
    THEN [handler |-> "geminiApi.handleListModels", body |-> FALSE]
  ELSE IF path = <<"v1beta", "models", "m">> /\ method = "GET"
    THEN [handler |-> "geminiApi.handleGetModel", body |-> FALSE]
  ELSE IF path = <<"v1beta", "models", "m:generateContent">>
          /\ method = "POST"
    THEN [handler |-> "geminiApi.handleGenerate", body |-> TRUE]
  ELSE IF path = <<"v1beta", "models", "m:countTokens">> /\ method = "POST"
    THEN [handler |-> "geminiApi.handleCountTokens", body |-> TRUE]
  ELSE IF path = <<"v1", "messages", "count_tokens">> /\ method = "POST"
    THEN [handler |-> "claudeApi.handleCountTokens", body |-> TRUE]
  ELSE IF path = <<"v1", "messages">> /\ method = "POST"
    THEN [handler |-> "claudeApi.handleMessages", body |-> TRUE]
  ELSE NoRoute

RouteHandlers ==
  {Route(p, m).handler : p \in Paths, m \in Methods} \ {"none"}

(* res.writeHead(status, ...); res.end(...) *)
Answer(r, status, message) ==
  [r EXCEPT !.pc = "done", !.status = status, !.message = message]

(* lines 243-367 up to the first await: the key check, then the routes *)
KeyCheckAndRoute(r) ==
  IF /\ api_keys # {}
     /\ IsApiEndpoint(r.path)
     /\ (ExtractApiKey(r) = <<>> \/ ~Includes(api_keys, ExtractApiKey(r)))
  THEN Answer(r, 401, "Invalid API Key")
  ELSE LET rt == Route(r.path, r.method)
       IN  IF rt = NoRoute THEN Answer(r, 404, "Not Found")
           ELSE IF rt.body THEN [r EXCEPT !.pc = "body"]
           ELSE [r EXCEPT !.pc = "handler", !.handler = rt.handler]

(* a request arrives: lines 189-210 *)
Receive(m, p, a, x, y, z, b) ==
  /\ req.pc = "idle"
  /\ nhttp < MaxHttp
  /\ nhttp' = nhttp + 1
  /\ LET r == [NoRequest EXCEPT !.method = m, !.path = p,
                 !.authorization = a, !.xApiKey = x, !.anthropicApiKey = y,
                 !.xGoogApiKey = z, !.bodyOk = b]
     IN  req' = IF m = "OPTIONS" THEN Answer(r, 200, "none")
                ELSE [r EXCEPT !.pc = "ui"]
  /\ UNCHANGED api_keys
  /\ UNCHANGED nonHttpVars

(* await handleUiRoute / handleOAuthCallbackRoute / handleAdminRoute *)
PublicRoute ==
  /\ req.pc \in {"ui", "oauth", "admin"}
  /\ req' = IF PublicArea(req.pc, req.path)
            THEN [Answer(req, 200, "none") EXCEPT !.handler = req.pc]
            ELSE IF req.pc = "ui" THEN [req EXCEPT !.pc = "oauth"]
            ELSE IF req.pc = "oauth" THEN [req EXCEPT !.pc = "admin"]
            ELSE KeyCheckAndRoute(req)
  /\ UNCHANGED <<api_keys, nhttp>>
  /\ UNCHANGED nonHttpVars

(* await parseJsonBody(req), then the call of the route's handler *)
ParseJsonBody ==
  /\ req.pc = "body"
  /\ req' = IF req.bodyOk
            THEN [req EXCEPT !.pc = "handler",
                             !.handler = Route(req.path, req.method).handler]
            ELSE Answer(req, 400, "Invalid JSON body")
  /\ UNCHANGED <<api_keys, nhttp>>
  /\ UNCHANGED nonHttpVars

(* the handler of the route ends, having called the upstream or not, with *)
(* a result that is written or an exception: lines 361-370                *)
HandlerReturns(up, ok) ==
  /\ req.pc = "handler"
  /\ req' = [Answer(req, IF ok THEN 200 ELSE 500,
                    IF ok THEN "none" ELSE "Internal Server Error")
               EXCEPT !.upstream = up]
  /\ UNCHANGED <<api_keys, nhttp>>
  /\ UNCHANGED nonHttpVars

(* the handler is free for the next request *)
NextRequest ==
  /\ req.pc = "done"
  /\ nhttp < MaxHttp
  /\ req' = NoRequest
  /\ UNCHANGED <<api_keys, nhttp>>
  /\ UNCHANGED nonHttpVars

(* any request, once the handler is free *)
OnRequest ==
  /\ req.pc = "idle"
  /\ \E m \in Methods : \E p \in Paths : \E a \in AuthorizationValues :
       \E x \in KeyHeaderValues : \E y \in KeyHeaderValues :
         \E z \in KeyHeaderValues : \E b \in BOOLEAN :
           Receive(m, p, a, x, y, z, b)

InitHttp ==
  /\ api_keys \in {{}, {"k1"}, {"k1", "k2"}}
  /\ req = NoRequest
  /\ nhttp = 0
  /\ AuthIdle
  /\ PoolIdle
  /\ CallIdle
  /\ GateIdle
  /\ StreamIdle
  /\ RefreshIdle
  /\ MemberIdle
  /\ SchemaIdle
  /\ PickIdle
  /\ QuotaMapIdle
  /\ StreamEndIdle

NextHttp ==
  \/ OnRequest
  \/ PublicRoute
  \/ ParseJsonBody
  \/ \E up \in BOOLEAN : \E ok \in BOOLEAN : HandlerReturns(up, ok)
  \/ NextRequest

SpecHttp == InitHttp /\ [][NextHttp]_vars

(* the path of the request is under /v1/ or /v1beta/ *)
UnderApi(path) == Len(path) >= 2 /\ path[1] \in {"v1", "v1beta"}

(* C19: with a non-empty key set, a request that is not OPTIONS, for a  *)
(* path under /v1/ or /v1beta/, whose key is missing or not in the set, *)
(* reaches no route handler, causes no upstream call and is answered    *)
(* 401 "Invalid API Key"; with an empty key set nothing is answered 401. *)
C19_KeyGate ==
  /\ (/\ api_keys # {}
      /\ req.pc # "idle"
      /\ req.method # "OPTIONS"
      /\ UnderApi(req.path)
      /\ (ExtractApiKey(req) = <<>> \/ ExtractApiKey(req) \notin
                                          {<<k>> : k \in api_keys})) =>
       /\ req.pc \notin {"body", "handler"}
       /\ req.handler \notin RouteHandlers
       /\ ~req.upstream
       /\ req.pc = "done" =>
            req.status = 401 /\ req.message = "Invalid API Key"
  /\ api_keys = {} => req.status # 401

C19_Witness ==
  /\ api_keys = {"k1"}
  /\ req.pc = "done"
  /\ req.method = "POST"
  /\ req.path = <<"v1beta", "models", "m:generateContent">>
  /\ req.authorization = <<"Bearer", "k3">>
  /\ req.xApiKey = <<"k1">>
  /\ req.status = 401
  /\ req.message = "Invalid API Key"
  /\ nhttp = 2


(* ------------------------------------------------------------------------ *)
(* SpecRefresh: QuotaRefresher.start and refreshAllAccountQuotas            *)
(* (QuotaRefresher.js:72-102, 202-275). refreshAllAccountQuotas is called   *)
(* by the closure of the initial refresh and by every tick of the interval  *)
(* timer. A pass is the async closure behind _refreshPromise: one fetch per *)
(* account, Promise.all, the cache update, and then, in a reaction of its   *)
(* own, the .finally that clears _refreshPromise.                           *)
(* ------------------------------------------------------------------------ *)
Running == {p \in DOMAIN passes : passes[p].st = "running"}

(* if (this._refreshPromise) return this._refreshPromise *)
PassInFlightIgnored == FALSE

PassInFlight == qRefreshPromise # 0

(* refreshAllAccountQuotas(), called by `by` with getAccountCount() = n: *)
(* the promise it returns, 0 for a result without a pass                 *)
RefreshAllAccountQuotas(by, n) ==
  IF PassInFlight
  THEN /\ qcalls' = Append(qcalls, [by |-> by, inflight |-> Running,
                                    got |-> qRefreshPromise,
                                    started |-> FALSE])
       /\ UNCHANGED <<qRefreshPromise, passes>>
  ELSE IF n = 0
  THEN /\ qcalls' = Append(qcalls, [by |-> by, inflight |-> Running,
                                    got |-> 0, started |-> FALSE])
       /\ UNCHANGED <<qRefreshPromise, passes>>
  ELSE /\ passes' = Append(passes, [st |-> "running", pending |-> 1..n,
                                    ok |-> {}])
       /\ qRefreshPromise' = Len(passes) + 1
       /\ qcalls' = Append(qcalls, [by |-> by, inflight |-> Running,
                                    got |-> Len(passes) + 1,
                                    started |-> TRUE])

(* start(): lines 72-102, with or without a positive refreshIntervalMs *)
Start(interval) ==
  /\ ~qRefreshTimer
  /\ initialRefresh.pc = "none"
  /\ initialRefresh' = [initialRefresh EXCEPT !.pc = "waitReady"]
  /\ qRefreshTimer' = interval
  /\ UNCHANGED <<qRefreshPromise, passes, qcalls, nqticks, quota>>
  /\ UNCHANGED nonRefreshVars

(* stop(): lines 104-109 *)
Stop ==
  /\ qRefreshTimer
  /\ qRefreshTimer' = FALSE
  /\ UNCHANGED <<qRefreshPromise, initialRefresh, passes, qcalls, nqticks,
                 quota>>
  /\ UNCHANGED nonRefreshVars

(* await this.waitForAccountsReady(...) resolves: line 77-78 *)
AccountsReady(ready) ==
  /\ initialRefresh.pc = "waitReady"
  /\ initialRefresh' =
       [initialRefresh EXCEPT !.pc = IF ready THEN "waitToken" ELSE "done"]
  /\ UNCHANGED <<qRefreshPromise, qRefreshTimer, passes, qcalls, nqticks,
                 quota>>
  /\ UNCHANGED nonRefreshVars

(* await this.auth.waitInitialTokenRefresh() resolves and the initial *)
(* refresh calls refreshAllAccountQuotas: lines 79-82                 *)
InitialRefresh(n) ==
  /\ initialRefresh.pc = "waitToken"
  /\ RefreshAllAccountQuotas("initial", n)
  /\ initialRefresh' = [pc |-> "awaitPass", got |-> qcalls'[Len(qcalls')].got]
  /\ UNCHANGED <<qRefreshTimer, nqticks, quota>>
  /\ UNCHANGED nonRefreshVars

(* the promise the initial refresh awaits has settled: lines 82-88 *)
InitialRefreshDone ==
  /\ initialRefresh.pc = "awaitPass"
  /\ initialRefresh.got # 0 => passes[initialRefresh.got].st = "settled"
  /\ initialRefresh' = [initialRefresh EXCEPT !.pc = "done"]
  /\ UNCHANGED <<qRefreshPromise, qRefreshTimer, passes, qcalls, nqticks,
                 quota>>
  /\ UNCHANGED nonRefreshVars

(* the interval timer fires: tick(), lines 92-100 *)
IntervalTick(n) ==
  /\ qRefreshTimer
  /\ nqticks < MaxQuotaTicks
  /\ nqticks' = nqticks + 1
  /\ RefreshAllAccountQuotas("tick", n)
  /\ UNCHANGED <<qRefreshTimer, initialRefresh, quota>>
  /\ UNCHANGED nonRefreshVars

(* the closure of one account of a pass ends: lines 215-243 *)
AccountFetched(p, a, ok) ==
  /\ p \in Running
  /\ a \in passes[p].pending
  /\ passes' = [passes EXCEPT ![p].pending = @ \ {a},
                              ![p].ok = IF ok THEN @ \cup {a} ELSE @]
  /\ UNCHANGED <<qRefreshPromise, qRefreshTimer, initialRefresh, qcalls,
                 nqticks, quota>>
  /\ UNCHANGED nonRefreshVars

(* Promise.all settles, the cache is updated, the closure returns: *)
(* lines 247-268                                                   *)
PassReturns(p, v) ==
  /\ p \in Running
  /\ passes[p].pending = {}
  /\ quota' = [f \in Files |->
                 IF f \in passes[p].ok
                 THEN [quota[f] EXCEPT !.remainingPercent = v[f]]
                 ELSE quota[f]]
  /\ passes' = [passes EXCEPT ![p].st = "returned"]
  /\ UNCHANGED <<qRefreshPromise, qRefreshTimer, initialRefresh, qcalls,
                 nqticks>>
  /\ UNCHANGED nonRefreshVars

(* .finally(() => { this._refreshPromise = null }): lines 270-272 *)
PassFinally(p) ==
  /\ p \in DOMAIN passes
  /\ passes[p].st = "returned"
  /\ qRefreshPromise' = 0
  /\ passes' = [passes EXCEPT ![p].st = "settled"]
  /\ UNCHANGED <<qRefreshTimer, initialRefresh, qcalls, nqticks, quota>>
  /\ UNCHANGED nonRefreshVars

InitRefresh ==
  /\ qRefreshPromise = 0
  /\ qRefreshTimer = FALSE
  /\ initialRefresh = [pc |-> "none", got |-> 0]
  /\ passes = <<>>
  /\ qcalls = <<>>
  /\ nqticks = 0
  /\ AuthIdle
  /\ PoolIdle
  /\ CallIdle
  /\ GateIdle
  /\ StreamIdle
  /\ HttpIdle
  /\ MemberIdle
  /\ SchemaIdle
  /\ PickIdle
  /\ QuotaMapIdle
  /\ StreamEndIdle

NextRefresh ==
  \/ \E i \in BOOLEAN : Start(i)
  \/ Stop
  \/ \E r \in BOOLEAN : AccountsReady(r)
  \/ \E n \in 0..NumFiles : InitialRefresh(n)
  \/ InitialRefreshDone
  \/ \E n \in 0..NumFiles : IntervalTick(n)
  \/ \E p \in DOMAIN passes : \E a \in Files : \E ok \in BOOLEAN :
       AccountFetched(p, a, ok)
  \/ \E p \in DOMAIN passes : \E v \in [Files -> QuotaLevels] :
       PassReturns(p, v)
  \/ \E p \in DOMAIN passes : PassFinally(p)

SpecRefresh == InitRefresh /\ [][NextRefresh]_vars

(* C20: at most one refresh pass runs at any time, and a call of          *)
(* refreshAllAccountQuotas made while a pass runs starts no pass and gets *)
(* the promise of the running one.                                        *)
C20_SinglePass ==
  /\ Cardinality(Running) <= 1
  /\ \A i \in DOMAIN qcalls :
       qcalls[i].inflight # {} =>
         ~qcalls[i].started /\ qcalls[i].got \in qcalls[i].inflight

C20_Witness ==
  /\ Len(qcalls) = 3
  /\ qcalls[1].by = "initial" /\ qcalls[1].started
  /\ qcalls[2].by = "tick" /\ qcalls[2].inflight = {1} /\ qcalls[2].got = 1
  /\ qcalls[3].by = "tick" /\ qcalls[3].started /\ qcalls[3].got = 2
  /\ Running = {2}

(* ====================================================================== *)
(*          SpecSchema: cleanJsonSchema / uppercaseSchemaTypes            *)
(* ====================================================================== *)
(* ClaudeTransformer.js lines 587-665. A JSON value carries its JavaScript  *)
(* type: t is "str", "num", "null", "arr" or "obj". A string is the        *)
(* sequence of the pieces it was concatenated from, an array a sequence of *)
(* values, an object a function from its keys to values (key order is not  *)
(* kept).                                                                  *)

Str(s) == [t |-> "str", v |-> s]
Num(n) == [t |-> "num", v |-> n]
Arr(a) == [t |-> "arr", v |-> a]
Obj(o) == [t |-> "obj", v |-> o]
JsNull == [t |-> "null", v |-> 0]

(* JavaScript truthiness of a value (`!x`, `a || b`) *)
Falsy(x) ==
  \/ x.t = "null"
  \/ x.t = "str" /\ x.v = <<>>
  \/ x.t = "num" /\ x.v = 0

(* lines 591-598, in the order of Object.entries *)
validationFields ==
  <<"minLength", "maxLength", "minimum", "maximum", "minItems", "maxItems">>

IsValidationField(key) == \E i \in 1..Len(validationFields) : validationFields[i] = key

(* mutant of Removed: the validation keywords stay in the cleaned schema *)
RemovedButValidation(key) ==
  \/ key \in {"$schema", "additionalProperties"}
  \/ key \in {"format", "default", "uniqueItems"}

(* lines 599, 610-613: the keys the loop skips *)
Removed(key) ==
  \/ key \in {"$schema", "additionalProperties"}
  \/ IsValidationField(key)
  \/ key \in {"format", "default", "uniqueItems"}

(* Array.prototype.join: the pieces of the items with sep between them *)
RECURSIVE Join(_, _)
Join(items, sep) ==
  IF items = <<>> THEN <<>>
  ELSE IF Len(items) = 1 THEN items[1]
  ELSE items[1] \o <<sep>> \o Join(Tail(items), sep)

(* String(value) inside a template literal (line 604, 623) *)
RECURSIVE TemplateString(_)
TemplateString(x) ==
  IF x.t = "str" THEN x.v
  ELSE IF x.t = "num" THEN <<ToString(x.v)>>
  ELSE IF x.t = "null" THEN <<"null">>
  ELSE IF x.t = "arr"
    THEN Join([i \in 1..Len(x.v) |-> TemplateString(x.v[i])], ",")
  ELSE <<"[object Object]">>

(* lines 601-606: `${label}: ${schema[field]}` for every keyword present *)
Validations(o) ==
  LET present == SelectSeq(validationFields, LAMBDA f : f \in DOMAIN o)
  IN [i \in 1..Len(present) |-> <<present[i], ": ">> \o TemplateString(o[present[i]])]

(* String.prototype.toUpperCase on the type names of the inputs *)
ToUpperCase(piece) ==
  CASE piece = "string" -> "STRING"
    [] piece = "integer" -> "INTEGER"
    [] piece = "object" -> "OBJECT"
    [] piece = "null" -> "NULL"
    [] OTHER -> piece

UpperString(x) ==
  IF x.t = "str" THEN Str([i \in 1..Len(x.v) |-> ToUpperCase(x.v[i])]) ELSE x

(* lines 616-619: a union type becomes its first non-"null" member *)
SingleType(value) ==
  LET filtered == SelectSeq(value, LAMBDA e : e # Str(<<"null">>))
  IN IF filtered # <<>> /\ ~Falsy(filtered[1]) THEN filtered[1]
     ELSE IF value # <<>> /\ ~Falsy(value[1]) THEN value[1]
     ELSE Str(<<"string">>)

(* lines 641-665 *)
RECURSIVE uppercaseSchemaTypes(_)
uppercaseSchemaTypes(sch) ==
  IF sch.t = "arr"
    THEN Arr([i \in 1..Len(sch.v) |-> uppercaseSchemaTypes(sch.v[i])])
  ELSE IF sch.t # "obj" THEN sch
  ELSE Obj([key \in DOMAIN sch.v |->
         LET value == sch.v[key]
         IN IF key = "type"
              THEN IF value.t = "str" THEN UpperString(value)
                   ELSE IF value.t = "arr"
                     THEN Arr([i \in 1..Len(value.v) |-> UpperString(value.v[i])])
                   ELSE value
              ELSE uppercaseSchemaTypes(value)])

(* lines 587-636 *)
RECURSIVE cleanJsonSchema(_)
cleanJsonSchema(sch) ==
  IF sch.t = "arr"
    THEN Arr([i \in 1..Len(sch.v) |-> cleanJsonSchema(sch.v[i])])
  ELSE IF sch.t # "obj" THEN sch
  ELSE
    LET o == sch.v
        validations == Validations(o)
        folded == <<" (">> \o Join(validations, ", ") \o <<")">>
        cleaned == [key \in {k \in DOMAIN o : ~Removed(k)} |->
          IF key = "type" /\ o[key].t = "arr" THEN SingleType(o[key].v)
          ELSE IF key = "description" /\ validations # <<>>
            THEN Str(TemplateString(o[key]) \o folded)
          ELSE cleanJsonSchema(o[key])]
        described ==
          IF validations # <<>>
               /\ ("description" \notin DOMAIN cleaned \/ Falsy(cleaned["description"]))
            THEN [key \in DOMAIN cleaned \cup {"description"} |->
                    IF key = "description"
                      THEN Str(<<"Validation: ">> \o Join(validations, ", "))
                      ELSE cleaned[key]]
            ELSE cleaned
    IN uppercaseSchemaTypes(Obj(described))

(* --------------------------- bounded schemas --------------------------- *)

MaxValidation == 2

(* the objects over the optional members `keys`: each key is absent or    *)
(* carries one of choices[key]                                             *)
RECURSIVE Objects(_, _)
Objects(keys, choices) ==
  IF keys = {} THEN {<<>>}
  ELSE LET k == CHOOSE x \in keys : TRUE
           rest == Objects(keys \ {k}, choices)
       IN rest \cup
            {[x \in DOMAIN o \cup {k} |-> IF x = k THEN v ELSE o[x]] :
               o \in rest, v \in choices[k]}

TypeValues ==
  {Str(<<"string">>), Str(<<"INTEGER">>),
   Arr(<<Str(<<"string">>), Str(<<"null">>)>>),
   Arr(<<Str(<<"null">>), Str(<<"integer">>)>>),
   Arr(<<Str(<<"null">>)>>), Arr(<<>>)}

(* a property schema: type (union), description, validation keywords,      *)
(* format                                                                  *)
LeafChoices ==
  [type |-> TypeValues,
   description |-> {Str(<<"d">>), Str(<<>>)},
   minLength |-> {Num(n) : n \in 0..MaxValidation},
   maximum |-> {Num(MaxValidation)},
   format |-> {Str(<<"email">>)}]

LeafSchemas == {Obj(o) : o \in Objects(DOMAIN LeafChoices, LeafChoices)}

(* the `properties` member: a property "a", and a property whose name is   *)
(* a validation keyword or "type"                                          *)
PropertyMaps ==
  {Obj([k \in {n} |-> l]) : n \in {"a", "maxItems", "type"}, l \in LeafSchemas}

(* a tool's input_schema *)
TopChoices ==
  [type |-> {Str(<<"object">>), Arr(<<Str(<<"object">>), Str(<<"null">>)>>)},
   description |-> {Str(<<"top">>)},
   minItems |-> {Num(1)},
   additionalProperties |-> {JsNull},
   required |-> {Arr(<<Str(<<"a">>)>>)},
   properties |-> PropertyMaps]

Schemas == {Obj(o) : o \in Objects(DOMAIN TopChoices, TopChoices)}

(* transformClaudeRequestIn line 844 hands a tool's input_schema over *)
InitSchema ==
  /\ toolSchema \in Schemas
  /\ cleanedOnce = JsNull
  /\ ncleans = 0
  /\ AuthIdle
  /\ PoolIdle
  /\ CallIdle
  /\ GateIdle
  /\ StreamIdle
  /\ HttpIdle
  /\ RefreshIdle
  /\ MemberIdle
  /\ PickIdle
  /\ QuotaMapIdle
  /\ StreamEndIdle

(* cleanJsonSchema is applied to the value at hand *)
CleanJsonSchema ==
  /\ ncleans < 2
  /\ toolSchema' = cleanJsonSchema(toolSchema)
  /\ cleanedOnce' = IF ncleans = 0 THEN cleanJsonSchema(toolSchema) ELSE cleanedOnce
  /\ ncleans' = ncleans + 1
  /\ UNCHANGED nonSchemaVars

NextSchema == CleanJsonSchema

SpecSchema == InitSchema /\ [][NextSchema]_vars

(* C22: cleanJsonSchema is idempotent: cleaning an already cleaned schema  *)
(* returns it unchanged.                                                   *)
C22_CleanIdempotent ==
  ncleans = 2 => toolSchema = cleanedOnce

(* C22 witness: a schema with a type union, a description and a validation *)
(* keyword on a nested property was cleaned twice, and the first pass      *)
(* changed all three                                                       *)
C22_Witness ==
  /\ ncleans = 2
  /\ "properties" \in DOMAIN toolSchema.v
  /\ "a" \in DOMAIN toolSchema.v["properties"].v
  /\ LET a == toolSchema.v["properties"].v["a"].v
     IN /\ "type" \in DOMAIN a /\ a["type"] = Str(<<"INTEGER">>)
        /\ "description" \in DOMAIN a
        /\ a["description"] = Str(<<"d", " (", "minLength", ": ", "2", ")">>)

(* ====================================================================== *)
(*             SpecPick: QuotaRefresher.pickAccountIndex                  *)
(* ====================================================================== *)
(* pickAccountIndex (QuotaRefresher.js 343-469) applied again and again to *)
(* a pool and quota snapshots that do not change. quota and nextIdx are    *)
(* what the call at hand gets from the two maps for its model key:         *)
(* modelQuotaByAccount.get(modelKey) (line 355) and                        *)
(* nextAccountIndexByModel.get(modelKey) (lines 448-450).                  *)

NumPickAccounts == 3
MaxPicks == 4
CooldownShortMs == 3000

ModelKeys == {"m1", "m2"}
PickFiles == 1..NumPickAccounts
PickLevels == {Null, 0, 50, 100}
ExcludeSets == {{}} \cup {{i} : i \in 0..1}

(* the snapshots of one model: any remaining quota, cooling down or not *)
SnapshotMaps ==
  [PickFiles -> [remainingPercent : PickLevels, cooldownUntilMs : {0, CooldownShortMs}]]

(* one call of pickAccountIndex(modelKey, {now, excludeAccountIndices});   *)
(* line 467 stores the cursor of modelKey only. Then the next call's model *)
(* key is `next` and its two map entries are looked up.                    *)
PickAccountIndexCall(next) ==
  /\ Len(picked) < MaxPicks
  /\ LET d == PickAccountIndex(now, excluded)
         stored == IF d.kind = "pick"
                     THEN [byModel EXCEPT ![modelKey].nextIdx = d.accountIndex + 1]
                     ELSE byModel
     IN /\ byModel' = stored
        /\ picked' = Append(picked, [key |-> modelKey, kind |-> d.kind,
                                     accountIndex |-> d.accountIndex,
                                     start |-> nextIdx])
        /\ modelKey' = next
        /\ quota' = stored[next].quota
        /\ nextIdx' = stored[next].nextIdx
  /\ UNCHANGED <<excluded, accounts, cursor, disk, ops, lastError, now, call, log,
                 nreq, nticks>>
  /\ UNCHANGED <<authVars, gateVars, streamVars, httpVars, refreshVars, memberVars,
                 schemaVars, quotaMapVars, streamEndVars>>

(* a loaded pool of NumPickAccounts accounts; model m1 has any snapshots,  *)
(* model m2 has none yet (no entry in modelQuotaByAccount); the cursor of  *)
(* m1 is wherever earlier picks left it                                    *)
InitPick ==
  /\ accounts = [i \in 1..NumPickAccounts |-> [file |-> i, email |-> i]]
  /\ disk = PickFiles
  /\ cursor = [g \in Groups |-> 0]
  /\ ops = [p \in Ops |-> IdleOp]
  /\ \E snap \in SnapshotMaps, c \in 0..NumPickAccounts :
       byModel = [m \in ModelKeys |->
                    IF m = "m1" THEN [nextIdx |-> c, quota |-> snap]
                    ELSE [nextIdx |-> 0, quota |-> [f \in PickFiles |-> NoSnapshot]]]
  /\ modelKey \in ModelKeys
  /\ excluded \in ExcludeSets
  /\ picked = <<>>
  /\ quota = byModel[modelKey].quota
  /\ nextIdx = byModel[modelKey].nextIdx
  /\ lastError = [status |-> 0, hint |-> Null]
  /\ now = 0
  /\ call = IdleCall
  /\ log = <<>>
  /\ nreq = 0
  /\ nticks = 0
  /\ AuthIdle
  /\ GateIdle
  /\ StreamIdle
  /\ HttpIdle
  /\ RefreshIdle
  /\ MemberIdle
  /\ SchemaIdle
  /\ QuotaMapIdle
  /\ StreamEndIdle

NextPick == \E next \in ModelKeys : PickAccountIndexCall(next)

SpecPick == InitPick /\ [][NextPick]_vars

(* ---------------------------- claims C27, C28 -------------------------- *)

RemainingOf(m, i) == byModel[m].quota[accounts[i + 1].file].remainingPercent

(* the accounts of model m that are not excluded, not cooling down and    *)
(* have a known, positive remaining quota                                 *)
KnownPositive(m) ==
  {i \in 0..(Len0 - 1) :
     /\ i \notin excluded
     /\ byModel[m].quota[accounts[i + 1].file].cooldownUntilMs <= now
     /\ RemainingOf(m, i) # Null
     /\ RemainingOf(m, i) > 0}

(* C27: when pickAccountIndex returns "pick" and some account that is not *)
(* excluded and not cooling down has a known positive remainingPercent,   *)
(* the chosen account has the largest remainingPercent among those; an    *)
(* account of unknown quota is chosen only when there is none.            *)
C27_PicksMostRemaining ==
  \A j \in 1..Len(picked) :
    LET e == picked[j]
    IN (e.kind = "pick" /\ KnownPositive(e.key) # {})
         => /\ e.accountIndex \in KnownPositive(e.key)
            /\ \A i \in KnownPositive(e.key) :
                 RemainingOf(e.key, i) <= RemainingOf(e.key, e.accountIndex)

(* C27 witness: the cursor pointed at an account with 50 % left (and one   *)
(* of unknown quota came before it), the account with 100 % left, behind   *)
(* the cursor, was picked                                                  *)
C27_Witness ==
  \E j \in 1..Len(picked) :
    /\ picked[j].key = "m1" /\ picked[j].kind = "pick"
    /\ picked[j].start = 1 /\ picked[j].accountIndex = 0
    /\ RemainingOf("m1", 0) = 100
    /\ RemainingOf("m1", 1) = 50
    /\ RemainingOf("m1", 2) = Null
    /\ KnownPositive("m1") = {0, 1}

(* the finalists of model m (lines 434-443), from the snapshots *)
Finalists(m) ==
  IF KnownPositive(m) # {}
    THEN {i \in KnownPositive(m) :
            \A x \in KnownPositive(m) : RemainingOf(m, x) <= RemainingOf(m, i)}
    ELSE {i \in 0..(Len0 - 1) :
            /\ i \notin excluded
            /\ byModel[m].quota[accounts[i + 1].file].cooldownUntilMs <= now
            /\ RemainingOf(m, i) = Null}

(* the first member of S at or after start, else the first member of S *)
CyclicFirst(S, start) ==
  IF \E i \in S : i >= start THEN Min({i \in S : i >= start}) ELSE Min(S)

(* the calls for model m that returned "pick", in order *)
PicksOf(m) == SelectSeq(picked, LAMBDA e : e.key = m /\ e.kind = "pick")

(* C28: with an unchanged snapshot and k finalists for model m, the picks  *)
(* for m go round the finalists in ascending cyclic order, starting at the *)
(* first finalist at or after the cursor; each pick sets the cursor of m   *)
(* to the chosen index plus one, picks for another model do not move it,   *)
(* and any k consecutive picks for m return k distinct accounts.          *)
C28_RoundRobin ==
  \A m \in ModelKeys :
    LET ps == PicksOf(m)
        k == Cardinality(Finalists(m))
    IN /\ \A j \in 1..Len(ps) :
            /\ Finalists(m) # {}
            /\ ps[j].accountIndex = CyclicFirst(Finalists(m), ps[j].start % Len0)
       /\ \A j \in 1..(Len(ps) - 1) : ps[j + 1].start = ps[j].accountIndex + 1
       /\ Len(ps) > 0 => byModel[m].nextIdx = ps[Len(ps)].accountIndex + 1
       /\ \A j \in 1..Len(ps) : \A l \in 1..Len(ps) :
            (j < l /\ l - j < k) => ps[j].accountIndex # ps[l].accountIndex

(* C28 witness: model m1 has two finalists out of three accounts; three    *)
(* picks for m1, with a pick for m2 in between, returned them in turn and  *)
(* wrapped around                                                          *)
C28_Witness ==
  /\ Len(picked) = 4
  /\ \A j \in 1..4 : picked[j].kind = "pick"
  /\ picked[1].key = "m1" /\ picked[2].key = "m2"
  /\ picked[3].key = "m1" /\ picked[4].key = "m1"
  /\ Finalists("m1") = {0, 2}
  /\ picked[1].accountIndex = 2
  /\ picked[3].accountIndex = 0
  /\ picked[4].accountIndex = 2

(* ====================================================================== *)
(*      SpecWait: callV1Internal over a pool of three accounts            *)
(* ====================================================================== *)
(* The actions of SpecCall, for requests that name a model, on a pool of   *)
(* three accounts; the upstream answers 400, 429 with a retry hint of      *)
(* ShortHintMs or LongerHintMs, or the connection fails; the quota refresh *)
(* may report the last account as used up.                                 *)

ShortHintMs == 2000
LongerHintMs == 4000

WaitOutcomes ==
  {[kind |-> "neterr", status |-> 0, hint |-> Null],
   [kind |-> "resp", status |-> 400, hint |-> Null],
   [kind |-> "resp", status |-> 429, hint |-> ShortHintMs],
   [kind |-> "resp", status |-> 429, hint |-> LongerHintMs]}

InitWait ==
  /\ accounts = [i \in 1..NumPickAccounts |-> [file |-> i, email |-> i]]
  /\ disk = PickFiles
  /\ cursor = [g \in Groups |-> 0]
  /\ ops = [p \in Ops |-> IdleOp]
  /\ quota = [f \in PickFiles |-> NoSnapshot]
  /\ lastError = [status |-> 0, hint |-> Null]
  /\ nextIdx = 0
  /\ now = 0
  /\ call = IdleCall
  /\ log = <<>>
  /\ nreq = 0
  /\ nticks = 0
  /\ AuthIdle
  /\ GateIdle
  /\ StreamIdle
  /\ HttpIdle
  /\ RefreshIdle
  /\ MemberIdle
  /\ SchemaIdle
  /\ PickIdle
  /\ QuotaMapIdle
  /\ StreamEndIdle

NextWait ==
  \/ StartCall(TRUE)
  \/ Pick
  \/ Exhaust
  \/ \E ok \in BOOLEAN : AcquireCredentials(ok)
  \/ \E out \in WaitOutcomes : Post(out)
  \/ Sleep
  \/ Settle
  \/ UpdateQuota(NumPickAccounts, 0)

SpecWait == InitWait /\ [][NextWait]_vars

(* the cooldown sleeps of the request so far *)
WaitSleeps == {j \in 1..Len(log) : log[j].e = "wait"}

(* C29: within one request the orchestrator sleeps for a cooldown "wait"   *)
(* decision at most once and then picks again; a second "wait" decision    *)
(* ends the request at once with the cached 429.                           *)
C29_SecondWaitEnds ==
  /\ Cardinality(WaitSleeps) <= 1
  /\ (call.pc = "sleep" /\ call.sleepKind = "wait") => call.after = "loop"
  /\ (call.pc = "done" /\ call.result.via = "wait")
       => /\ Cardinality(WaitSleeps) = 1
          /\ call.result.kind = "return"
          /\ call.result.resp.src = "cache"
          /\ call.result.resp.status = 429

(* ------------------------------ claim C30 ------------------------------ *)

(* the POST logged at k failed with a transport error *)
NetErrAt(k) == log[k].e = "post" /\ log[k].a = 0

(* the POST logged at k is the first one of its attempt *)
FirstPostAt(k) == k >= 2 /\ log[k - 1].e = "creds"

(* the first account attempt after event k, if the request has made one *)
NextAttemptAfter(k) ==
  {l \in AttemptsAt : l > k /\ \A j \in AttemptsAt : ~(k < j /\ j < l)}

(* the account indices the request attempted before event l *)
TriedBefore(l) == {log[j].a : j \in {i \in AttemptsAt : i < l}}

(* C30: after a transport error of a POST the orchestrator sleeps           *)
(* FIXED_RETRY_DELAY_MS; with one account it then retries the same account  *)
(* once and a second transport error is raised; with more than one account  *)
(* the next attempt uses an account not yet tried in this request.          *)
C30_NetworkErrorRetry ==
  \A k \in 1..Len(log) :
    (NetErrAt(k) /\ FirstPostAt(k)) =>
      IF call.maxAttempts = 1
        THEN /\ k = Len(log) => /\ call.pc = "sleep"
                                /\ call.delay = FIXED_RETRY_DELAY_MS
                                /\ call.after = "post"
             /\ k < Len(log) => log[k + 1] = Ev("sleep", FIXED_RETRY_DELAY_MS, 0)
             /\ k + 1 = Len(log) => call.pc = "post"
             /\ k + 1 < Len(log) => log[k + 2].e = "post"
             /\ (k + 1 < Len(log) /\ NetErrAt(k + 2)) =>
                  /\ k + 2 = Len(log)
                  /\ call.pc = "done"
                  /\ call.result.kind = "throw"
                  /\ call.result.err = "network"
                  /\ call.result.errPost = 2
        ELSE /\ k = Len(log) => /\ call.pc = "sleep"
                                /\ call.delay = FIXED_RETRY_DELAY_MS
                                /\ call.after = "loop"
             /\ k < Len(log) => log[k + 1] = Ev("sleep", FIXED_RETRY_DELAY_MS, 0)
             /\ \A l \in NextAttemptAfter(k) : log[l].a \notin TriedBefore(l)

(* ------------------------------ claim C31 ------------------------------ *)

(* the attempt logged at j ended in a 429 or a transport error before the  *)
(* attempt logged at l began                                               *)
EndedIn429OrNetErr(j, l) ==
  \E k \in (j + 1)..(l - 1) : NetErrAt(k) \/ Is429At(k)

(* C31: a request without a model id on a pool of more than one account    *)
(* rotates per group: after an attempt that ended in a 429 or a transport  *)
(* error, the next attempt of the request uses a different account.        *)
C31_NoModelRoundRobin ==
  (~call.model /\ call.maxAttempts > 1) =>
    \A j \in AttemptsAt : \A l \in NextAttemptAfter(j) :
      EndedIn429OrNetErr(j, l) => log[l].a # log[j].a

(* ------------------------------------------------------------------------ *)
(* NonStreamingProcessor (ClaudeTransformer.js:350-521) on the parts of a   *)
(* response. A text is the sequence of the parts it was concatenated from;  *)
(* part k's signature, function name, id and args are written k.            *)
(* ------------------------------------------------------------------------ *)
ContentBlockOf(type, text, signature, tool, input) ==
  [type |-> type, text |-> text, signature |-> signature, tool |-> tool,
   input |-> input]

NewNonStreamingProcessor ==
  [contentBlocks |-> <<>>, textBuilder |-> <<>>, thinkingBuilder |-> <<>>,
   hasToolCall |-> FALSE, thinkingSignature |-> 0, trailingSignature |-> 0]

(* NonStreamingProcessor.flushText *)
flushText(np) ==
  IF np.textBuilder = <<>> THEN np
  ELSE [np EXCEPT
          !.contentBlocks = Append(@, ContentBlockOf("text", np.textBuilder, 0, 0, 0)),
          !.textBuilder = <<>>]

(* NonStreamingProcessor.flushThinking *)
flushThinking(np) ==
  IF np.thinkingBuilder = <<>> /\ np.thinkingSignature = 0 THEN np
  ELSE [np EXCEPT
          !.contentBlocks = Append(@, ContentBlockOf("thinking", np.thinkingBuilder,
                                                     np.thinkingSignature, 0, 0)),
          !.thinkingSignature = 0,
          !.thinkingBuilder = <<>>]

(* if (this.trailingSignature) { contentBlocks.push(empty thinking block) } *)
PushTrailing(np) ==
  IF np.trailingSignature = 0 THEN np
  ELSE [np EXCEPT
          !.contentBlocks = Append(@, ContentBlockOf("thinking", <<>>,
                                                     np.trailingSignature, 0, 0)),
          !.trailingSignature = 0]

(* NonStreamingProcessor.processPart(part), part k of the response *)
processPart(np, p, k) ==
  LET sig == IF p.sig THEN k ELSE 0 IN
  IF p.kind = "functionCall" THEN
    LET n1 == PushTrailing(flushText(flushThinking(np)))
    IN  [n1 EXCEPT
           !.hasToolCall = TRUE,
           !.contentBlocks = Append(@, ContentBlockOf("tool_use", <<>>, sig, k,
                                                      IF p.args THEN k ELSE 0))]
  ELSE IF p.kind = "thinking" THEN
    LET n1 == flushText(np)
        n2 == IF n1.trailingSignature # 0 THEN PushTrailing(flushThinking(n1)) ELSE n1
        n3 == [n2 EXCEPT !.thinkingBuilder = Append(@, k)]
    IN  IF sig # 0 THEN [n3 EXCEPT !.thinkingSignature = sig] ELSE n3
  ELSE IF p.kind = "emptyText" THEN
    IF sig # 0 THEN [np EXCEPT !.trailingSignature = sig] ELSE np
  ELSE
    LET n1 == flushThinking(np)
        n2 == IF n1.trailingSignature # 0 THEN PushTrailing(flushText(n1)) ELSE n1
        n3 == [n2 EXCEPT !.textBuilder = Append(@, k)]
    IN  IF sig # 0
          THEN LET n4 == flushText(n3)
               IN  [n4 EXCEPT !.contentBlocks =
                      Append(@, ContentBlockOf("thinking", <<>>, sig, 0, 0))]
          ELSE n3

RECURSIVE processPartsFrom(_, _, _)
processPartsFrom(np, ps, k) ==
  IF ps = <<>> THEN np
  ELSE processPartsFrom(processPart(np, Head(ps), k + 1), Tail(ps), k + 1)

(* NonStreamingProcessor.process: the content array of the response *)
NonStreamingContent(ps) ==
  PushTrailing(flushText(flushThinking(
    processPartsFrom(NewNonStreamingProcessor, ps, 0)))).contentBlocks

(* ------------------------------ claim C32 ------------------------------ *)

(* the events the client received for content block b, in order *)
EventsOf(b) == SelectSeq(Out, LAMBDA e : e.index = b)

(* the parts whose text the deltas of these events carry, in order *)
RECURSIVE DeltaText(_)
DeltaText(es) ==
  IF es = <<>> THEN <<>>
  ELSE IF es[1].delta \in {"text_delta", "thinking_delta"} /\ es[1].src # 0
    THEN <<es[1].src>> \o DeltaText(Tail(es))
  ELSE DeltaText(Tail(es))

(* the last signature the events of a block carry, 0 if none *)
RECURSIVE LastSignature(_)
LastSignature(es) ==
  IF es = <<>> THEN 0
  ELSE IF es[Len(es)].sig # 0 THEN es[Len(es)].sig
  ELSE LastSignature(SubSeq(es, 1, Len(es) - 1))

(* the partial_json of the block's input_json_delta, 0 for the {} of the   *)
(* content_block_start                                                     *)
RECURSIVE DeltaInput(_)
DeltaInput(es) ==
  IF es = <<>> THEN 0
  ELSE IF es[1].delta = "input_json_delta" THEN es[1].src
  ELSE DeltaInput(Tail(es))

(* the content block a client rebuilds from the events of block b *)
StreamedBlock(b) ==
  LET es == EventsOf(b)
  IN  ContentBlockOf(es[1].block, DeltaText(es), LastSignature(es),
                     IF es[1].block = "tool_use" THEN es[1].src ELSE 0,
                     DeltaInput(es))

(* the content array a client rebuilds from the streamed events *)
StreamedContent ==
  [b \in 1..Cardinality({i \in DOMAIN Out : Out[i].type = "content_block_start"})
     |-> StreamedBlock(b - 1)]

(* C32: once the streamed response is finished, the content blocks rebuilt *)
(* from the streamed events equal the content array NonStreamingProcessor  *)
(* produces for the same parts.                                            *)
C32_StreamMirrorsNonStreaming ==
  Finished => StreamedContent = NonStreamingContent(sparts)

(* --------------------------- claims C33, C34 --------------------------- *)

(* the file of the account a group's cursor points at, 0 if it points at   *)
(* none                                                                    *)
CurrentFile(g) == IF cursor[g] < Len0 THEN accounts[cursor[g] + 1].file ELSE 0

(* the files of the accounts in the pool *)
FilesInPool == {accounts[i].file : i \in 1..Len0}

(* C33: a delete of an account that is not a group's current account       *)
(* leaves the group's cursor on the same account: the cursor is            *)
(* decremented when the deleted index was below it and unchanged when      *)
(* above; a delete of the current account clamps the cursor to the new     *)
(* tail.                                                                   *)
C33_CursorFollowsAccount ==
  [][\A p \in Ops : \A g \in Groups :
       (DeleteFinish(p) /\ ops[p].file \in FilesInPool /\ cursor[g] < Len0) =>
         LET idx == FindIndexByFile(ops[p].file)
         IN  IF idx < cursor[g]
               THEN /\ cursor'[g] = cursor[g] - 1
                    /\ accounts'[cursor'[g] + 1].file = CurrentFile(g)
             ELSE IF idx > cursor[g]
               THEN /\ cursor'[g] = cursor[g]
                    /\ accounts'[cursor'[g] + 1].file = CurrentFile(g)
             ELSE cursor'[g] = Max({0, Min({cursor[g], Len(accounts') - 1})})]_vars

(* C34: under any interleaving, a delete that succeeds removes from the    *)
(* pool exactly the account whose file name was given: afterwards the      *)
(* named account is not in the pool and every other account still is.      *)
C34_DeleteRemovesNamed ==
  [][\A p \in Ops :
       DeleteFinish(p) =>
         /\ ops[p].file \notin {accounts'[i].file : i \in 1..Len(accounts')}
         /\ \A f \in FilesInPool \ {ops[p].file} :
              f \in {accounts'[i].file : i \in 1..Len(accounts')}]_vars

(* ------------------------------ claim C35 ------------------------------ *)

(* a step that calls fs.writeFile on the credential file of account a: a   *)
(* refreshToken closure reaches line 545, or an ensureProjectId closure    *)
(* line 323, and waits for the write                                       *)
WritesFileOf(a) ==
  \/ \E f \in refreshFlights' \ refreshFlights : f.acct = a /\ f.pc = "write"
  \/ \E f \in projFlights' \ projFlights : f.acct = a /\ f.pc = "write"

(* C35: once deleteAccountByFile has removed an account, its credential    *)
(* file is never written again, also by a token refresh or a project-id    *)
(* resolution that was in flight for the account when it was deleted.      *)
C35_DeletedFileNotRewritten ==
  [][\A a \in Accts : inPool[a] = "out" => ~WritesFileOf(a)]_vars

(* ------------------------------ claim C36 ------------------------------ *)

(* the getCredentials call of caller c throws in this step *)
Fails(c) == cpc[c] # "failed" /\ cpc'[c] = "failed"

(* C36: a getCredentials call does not fail while its account holds an     *)
(* unexpired access token and a projectId, whatever the outcome of a       *)
(* pre-expiry refresh that is in flight for the account.                   *)
C36_ValidTokenSucceeds ==
  [][\A c \in Callers :
       Fails(c) => (expired[cacct[c]] \/ projectId[cacct[c]] = 0)]_vars

(* ------------------------------------------------------------------------ *)
(* SpecQuota: the two writers of modelQuotaByAccount (QuotaRefresher.js:    *)
(* 146-170, 277-287) with a refresh pass that holds its per-account results *)
(* until Promise.all settles (lines 202-268). A snapshot is the object      *)
(* stored for (model, account key); a property that is not there reads      *)
(* undefined, and so does every property of a pair without entry            *)
(* (`perModel.get(accountKey) || {}`). remainingFraction, resetTimeMs and   *)
(* updatedAtMs are written together with remainingPercent and are left out. *)
(* ------------------------------------------------------------------------ *)
Undefined == 0 - 2

SnapshotFields == {"remainingPercent", "resetTime", "cooldownUntilMs"}

EmptyObject == [k \in SnapshotFields |-> Undefined]

(* mutant of ObjectSpread: the new object has the written properties only *)
ObjectSpreadNoPrev(prev, props) ==
  [k \in SnapshotFields |-> IF k \in DOMAIN props THEN props[k] ELSE Undefined]

(* { ...prev, <props> } *)
ObjectSpread(prev, props) ==
  [k \in SnapshotFields |-> IF k \in DOMAIN props THEN props[k] ELSE prev[k]]

(* a remainingFraction in thousandths, a resetTime, a cooldown deadline *)
HalfFraction == 505
ResetAt == 1
CooldownAtMs == 1000

(* Math.round(remainingFraction * 100), null without a fraction *)
RemainingPercentOf(fraction) ==
  IF fraction = Undefined \/ fraction = Null THEN Null
  ELSE (fraction + 5) \div 10

(* quotaInfo.resetTime || null *)
ResetTimeOf(resetTime) == IF resetTime = Undefined THEN Null ELSE resetTime

(* what fetchAvailableModels says of one model: not listed, listed without  *)
(* quotaInfo, listed with a fraction and a reset time                       *)
NotListed == [listed |-> FALSE, remainingFraction |-> Undefined, resetTime |-> Undefined]

QuotaInfos ==
  {[listed |-> TRUE, remainingFraction |-> Undefined, resetTime |-> Undefined],
   [listed |-> TRUE, remainingFraction |-> HalfFraction, resetTime |-> ResetAt]}

ModelsAnswers ==
  {ms \in [ModelKeys -> QuotaInfos \cup {NotListed}] : ms["m1"].listed}

(* updateQuotaCacheFromModels(accountKey, models): lines 146-170 *)
updateQuotaCacheFromModels(mq, accountKey, models) ==
  [m \in ModelKeys |->
     IF models[m].listed
       THEN [mq[m] EXCEPT ![accountKey] =
               ObjectSpread(mq[m][accountKey],
                 [remainingPercent |-> RemainingPercentOf(models[m].remainingFraction),
                  resetTime |-> ResetTimeOf(models[m].resetTime)])]
       ELSE mq[m]]

(* setCooldownUntil(modelId, accountKey, cooldownUntilMs): lines 277-287, *)
(* with a finite cooldownUntilMs                                         *)
setCooldownUntil(mq, modelId, accountKey, cooldownUntilMs) ==
  [mq EXCEPT ![modelId][accountKey] =
     ObjectSpread(mq[modelId][accountKey], [cooldownUntilMs |-> cooldownUntilMs])]

(* the result a pass holds for one account *)
NoResult == [st |-> "none", models |-> [m \in ModelKeys |-> NotListed]]

(* fetchModelsByAccountIndex lines 176-199: the models of one account are *)
(* fetched and stored at once                                            *)
FetchModelsByAccountIndex(f, models) ==
  /\ modelQuotaByAccount' = updateQuotaCacheFromModels(modelQuotaByAccount, f, models)
  /\ modelQuotaByAccount' # modelQuotaByAccount
  /\ UNCHANGED passResults
  /\ UNCHANGED nonQuotaMapVars

(* callV1Internal line 931: the cooldown of the account that answered 429 *)
SetCooldownUntil(m, f) ==
  /\ modelQuotaByAccount[m][f].cooldownUntilMs # CooldownAtMs
  /\ modelQuotaByAccount' = setCooldownUntil(modelQuotaByAccount, m, f, CooldownAtMs)
  /\ UNCHANGED passResults
  /\ UNCHANGED nonQuotaMapVars

(* refreshAllAccountQuotas lines 210-245: a pass starts one fetch per account *)
QuotaPassStart ==
  /\ \A f \in Files : passResults[f].st = "none"
  /\ passResults' = [f \in Files |-> [NoResult EXCEPT !.st = "pending"]]
  /\ UNCHANGED modelQuotaByAccount
  /\ UNCHANGED nonQuotaMapVars

(* lines 238-243: the fetch of one account answers or fails; the pass keeps *)
(* the result                                                              *)
QuotaPassFetched(f, ok, models) ==
  /\ passResults[f].st = "pending"
  /\ passResults' = [passResults EXCEPT ![f] =
       IF ok THEN [st |-> "ok", models |-> models]
       ELSE [NoResult EXCEPT !.st = "fail"]]
  /\ UNCHANGED modelQuotaByAccount
  /\ UNCHANGED nonQuotaMapVars

(* lines 252-266: for (const item of results), in the order of the accounts *)
RECURSIVE ApplyResults(_, _)
ApplyResults(mq, fs) ==
  IF fs = {} THEN mq
  ELSE LET f == Min(fs)
       IN  ApplyResults(IF passResults[f].st = "ok"
                          THEN updateQuotaCacheFromModels(mq, f, passResults[f].models)
                          ELSE mq,
                        fs \ {f})

(* lines 247-268: Promise.all has settled and the cache is updated *)
QuotaPassApply ==
  /\ \A f \in Files : passResults[f].st \in {"ok", "fail"}
  /\ modelQuotaByAccount' = ApplyResults(modelQuotaByAccount, Files)
  /\ passResults' = [f \in Files |-> NoResult]
  /\ UNCHANGED nonQuotaMapVars

(* a started QuotaRefresher: no snapshot yet, no pass in flight *)
InitQuota ==
  /\ modelQuotaByAccount = [m \in ModelKeys |-> [f \in Files |-> EmptyObject]]
  /\ passResults = [f \in Files |-> NoResult]
  /\ AuthIdle
  /\ PoolIdle
  /\ CallIdle
  /\ GateIdle
  /\ StreamIdle
  /\ HttpIdle
  /\ RefreshIdle
  /\ MemberIdle
  /\ SchemaIdle
  /\ PickIdle
  /\ StreamEndIdle

NextQuota ==
  \/ \E f \in Files, models \in ModelsAnswers : FetchModelsByAccountIndex(f, models)
  \/ \E m \in ModelKeys, f \in Files : SetCooldownUntil(m, f)
  \/ QuotaPassStart
  \/ \E f \in Files, ok \in BOOLEAN, models \in ModelsAnswers :
       QuotaPassFetched(f, ok, models)
  \/ QuotaPassApply

SpecQuota == InitQuota /\ [][NextQuota]_vars

(* ------------------------------ claim C37 ------------------------------ *)

(* this step is a cooldown write for (m, f) *)
WritesCooldown(m, f) == SetCooldownUntil(m, f)

(* this step is a quota refresh update that covers (m, f) *)
UpdatesQuotaOf(m, f) ==
  \/ \E models \in ModelsAnswers :
       models[m].listed /\ FetchModelsByAccountIndex(f, models)
  \/ /\ QuotaPassApply
     /\ passResults[f].st = "ok"
     /\ passResults[f].models[m].listed

(* C37: a quota refresh update leaves cooldownUntilMs of its snapshots as   *)
(* it was, a cooldown write leaves remainingPercent and resetTime of its    *)
(* snapshot as they were, also with a refresh pass in flight, and neither   *)
(* changes the snapshot of a pair it does not write.                        *)
C37_WritersDoNotClobber ==
  [][\A m \in ModelKeys : \A f \in Files :
       /\ ~WritesCooldown(m, f) =>
            modelQuotaByAccount'[m][f].cooldownUntilMs
              = modelQuotaByAccount[m][f].cooldownUntilMs
       /\ ~UpdatesQuotaOf(m, f) =>
            /\ modelQuotaByAccount'[m][f].remainingPercent
                 = modelQuotaByAccount[m][f].remainingPercent
            /\ modelQuotaByAccount'[m][f].resetTime
                 = modelQuotaByAccount[m][f].resetTime]_vars

(* C37 witness: for (m1, account 1) both the cooldown and the quota were   *)
(* written, the pair (m2, account 2) has a cooldown only, the pair (m2,    *)
(* account 1) is untouched                                                 *)
C37_Witness ==
  /\ modelQuotaByAccount["m1"][1] =
       [remainingPercent |-> 51, resetTime |-> ResetAt, cooldownUntilMs |-> CooldownAtMs]
  /\ modelQuotaByAccount["m2"][2] =
       [remainingPercent |-> Undefined, resetTime |-> Undefined,
        cooldownUntilMs |-> CooldownAtMs]
  /\ modelQuotaByAccount["m2"][1] = EmptyObject
  /\ \A f \in Files : passResults[f].st = "none"

(* ------------------------------ claim C38 ------------------------------ *)

(* every credential acquisition, upstream POST and sleep of a request      *)
(* completes, and the synchronous code between two awaits runs             *)
SpecCallFair ==
  /\ SpecCall
  /\ WF_vars(Pick)
  /\ WF_vars(Exhaust)
  /\ WF_vars(\E ok \in BOOLEAN : AcquireCredentials(ok))
  /\ WF_vars(\E out \in Outcomes : Post(out))
  /\ WF_vars(Sleep)

(* callV1Internal is running: called and not yet returned or thrown *)
CallRunning == call.pc \notin {"idle", "done"}

(* C38: every call of callV1Internal returns a response or raises an error *)
(* after finitely many loop iterations, for every pool size, every         *)
(* sequence of upstream outcomes and every sequence of selector decisions. *)
C38_CallTerminates == CallRunning ~> (call.pc = "done")

(* C38 witness: a request on two accounts that went through a cooldown     *)
(* wait, an attempt on each account and a transport error has ended        *)
C38_Witness ==
  /\ call.pc = "done"
  /\ call.maxAttempts = 2
  /\ Cardinality(AttemptsAt) = 2
  /\ \E k \in 1..Len(log) : log[k].e = "wait"
  /\ \E k \in 1..Len(log) : NetErrAt(k)
  /\ \E k \in 1..Len(log) : Is429At(k)

(* ------------------------------------------------------------------------ *)
(* SpecStreamEnd: a streamed response up to the end of the upstream body    *)
(* (handleStreamingResponse, ClaudeTransformer.js:987-1036). The upstream   *)
(* may send [DONE], or end, before any chunk carried a finishReason.        *)
(* ------------------------------------------------------------------------ *)

(* processSSELine of "data: [DONE]" before any chunk carried a finishReason *)
DoneBeforeFinish ==
  /\ ~Finished
  /\ nlines < MaxLines
  /\ state' = EmitMessageStop(state)
  /\ nlines' = nlines + 1
  /\ UNCHANGED sparts
  /\ UNCHANGED nonStreamVars

(* reader.read() reports done: the loop breaks and `finally` closes the    *)
(* client stream (lines 1002-1003, 1019-1023)                              *)
ReaderDone ==
  /\ ~closed
  /\ closed' = TRUE
  /\ UNCHANGED nonStreamEndVars

NextStreamEnd ==
  \/ \E ps \in ChunkParts : \E f \in FinishReasons : ~closed /\ ProcessSSELine(ps, f)
  \/ ~closed /\ DoneLine
  \/ ~closed /\ DoneBeforeFinish
  \/ ReaderDone

SpecStreamEnd == InitStream /\ [][NextStreamEnd]_vars

(* ------------------------------ claim C39 ------------------------------ *)

(* the positions of the events of a type in what the client received *)
EventsOfType(t) == {i \in DOMAIN Out : Out[i].type = t}

(* C39: when the upstream stream of a response that began has ended, every *)
(* content_block_start was followed by its content_block_stop, no trailing *)
(* signature is left stashed, and message_delta then message_stop were     *)
(* emitted exactly once, as the last two events.                           *)
C39_StreamComplete ==
  (closed /\ state.messageStartSent) =>
    /\ OpenUpTo(Len(Out)) = 0
    /\ state.trailingSignature = 0
    /\ EventsOfType("message_delta") = {Len(Out) - 1}
    /\ EventsOfType("message_stop") = {Len(Out)}

(* ====================================================================== *)
(*      SpecInspect: the admin quota inspection and the group cursors     *)
(* ====================================================================== *)

(* getCredentials lines 340-342: the file of the account a serving request *)
(* of group g is given when it reads the group cursor now; 0 when the      *)
(* cursor points at no account                                             *)
ServedAccount(g) ==
  IF cursor[g] >= 0 /\ cursor[g] < Len0 THEN accounts[cursor[g] + 1].file ELSE 0

(* getAccountQuota lines 114-127: the account is looked up by file name,   *)
(* both cursors are remembered and then pointed at it, and the model fetch *)
(* is awaited; an unknown name throws before anything is touched           *)
GetAccountQuotaStart(p, f) ==
  /\ ops[p].pc = "idle"
  /\ FindIndexByFile(f) # 0 - 1
  /\ ops' = [ops EXCEPT ![p] = [IdleOp EXCEPT !.pc = "models", !.file = f,
                                              !.idx = FindIndexByFile(f),
                                              !.prevClaude = cursor["claude"],
                                              !.prevGemini = cursor["gemini"]]]
  /\ cursor' = [g \in Groups |-> FindIndexByFile(f)]
  /\ UNCHANGED <<accounts, disk>>
  /\ UNCHANGED nonPoolVars

(* getAccountQuota lines 127-131: the fetch has ended (with models or by   *)
(* throwing); the finally block writes the remembered indices back         *)
GetAccountQuotaFinish(p) ==
  /\ ops[p].pc = "models"
  /\ cursor' = [g \in Groups |->
       IF g = "claude" THEN ops[p].prevClaude ELSE ops[p].prevGemini]
  /\ ops' = [ops EXCEPT ![p] = IdleOp]
  /\ UNCHANGED <<accounts, disk>>
  /\ UNCHANGED nonPoolVars

NextInspect ==
  \/ \E p \in Ops, f \in Files : GetAccountQuotaStart(p, f)
  \/ \E p \in Ops : GetAccountQuotaFinish(p)
  \/ \E p \in Ops, f \in Files : DeleteStart(p, f)
  \/ \E p \in Ops : DeleteFinish(p)
  \/ \E g \in Groups : RotateAccount(g)
  \/ \E g \in Groups, i \in 0..MaxPool : OrchestratorPick(g, i)

SpecInspect == InitPool /\ [][NextInspect]_vars

(* ------------------------------- claim C40 ----------------------------- *)

(* both group cursors hold a position of the list, 0 for the empty list *)
CursorsValid == \A g \in Groups : cursor[g] >= 0 /\ cursor[g] < Max({1, Len0})

(* C40: the admin quota inspection does not disturb account selection: a   *)
(* serving request that reads its group cursor once the inspection awaits  *)
(* its model fetch is given the account the cursor pointed to before the   *)
(* call, and when the inspection returns both group cursors hold positions *)
(* in [0, max(1, |pool|)), also when an account was deleted during the     *)
(* fetch.                                                                  *)
C40_InspectionLeavesSelection ==
  [][/\ \A p \in Ops, f \in Files :
          GetAccountQuotaStart(p, f) =>
            \A g \in Groups : ServedAccount(g)' = ServedAccount(g)
     /\ \A p \in Ops : GetAccountQuotaFinish(p) => CursorsValid']_vars

====
